---- MODULE Spec2Model ----
(***************************************************************************)
(* Model of the ingestion-and-relevance pipeline of articlesummaries:      *)
(*   - GroqChecker (src/src/llm/groq_checker.py): batch remote classifier  *)
(*   - check_papers (src/main.py): the LLM relevance step                  *)
(*   - ArxivSource / BiorxivSource / MedrxivSource fetch_papers            *)
(*                                                                         *)
(* Conventions.  A float is an integer number of tenths (0.7 is 7).  A     *)
(* Python str that the code builds or searches is a sequence of tokens, so *)
(* that an f-string is a concatenation and `x in s` is a token search.     *)
(* An Optional value is a record [some, v].                                *)
(***************************************************************************)
EXTENDS Integers, Sequences, FiniteSets, TLC

(***************************************************************************)
(* Bounds of the model                                                     *)
(***************************************************************************)
MaxAbstracts == 3
MaxBatchSize == 3
MaxPapers == 3
MaxDoi == 4
MaxCap == 3
MaxArxivResults == 3
MaxVersion == 2
MaxDay == 1
MaxSources == 2
MaxFetched == 1
MaxInput == 2
MaxKeywords == 2

\* BiorxivSource.MAX_RESULTS_PER_PAGE and MedrxivSource.MAX_RESULTS_PER_PAGE
\* are 100 in the source; the model, like the tests of the repository,
\* runs the pagination with a small page.
MAX_RESULTS_PER_PAGE == 2

(***************************************************************************)
(* Program constants                                                       *)
(***************************************************************************)
DEFAULT_BATCH_SIZE == 10
DEFAULT_BATCH_DELAY_SECONDS == 2
RATE_LIMIT_SLEEP_SECONDS == 10

(***************************************************************************)
(* Generic helpers                                                         *)
(***************************************************************************)
None == [some |-> FALSE, v |-> 0]
Some(x) == [some |-> TRUE, v |-> x]

Min(a, b) == IF a < b THEN a ELSE b

\* Python: [x] * k  (k <= 0 gives the empty list)
Repeat(x, k) == [j \in 1..k |-> x]

\* Python: s[:k] for k >= 0
Take(s, k) == SubSeq(s, 1, Min(k, Len(s)))

\* Python: needle in haystack, on token sequences
Contains(haystack, needle) == \E j \in DOMAIN haystack : haystack[j] = needle

(***************************************************************************)
(* JSON values as json.loads produces them.  t is the Python type of the   *)
(* value: "bool", "int", "bigint" (an int beyond the range of a double),   *)
(* "float", "str"; "absent" marks a key that is not in the object.         *)
(***************************************************************************)
JBool(b) == [t |-> "bool", b |-> b, n |-> 0, s |-> <<>>]
JInt(n) == [t |-> "int", b |-> FALSE, n |-> n, s |-> <<>>]
JBigInt == [t |-> "bigint", b |-> FALSE, n |-> 0, s |-> <<>>]
JFloat(tenths) == [t |-> "float", b |-> FALSE, n |-> tenths, s |-> <<>>]
JStr(tokens) == [t |-> "str", b |-> FALSE, n |-> 0, s |-> tokens]
JAbsent == [t |-> "absent", b |-> FALSE, n |-> 0, s |-> <<>>]

\* isinstance(v, bool)
IsInstanceBool(v) == v.t = "bool"

\* isinstance(v, (float, int)): bool is a subclass of int in Python
IsInstanceFloatInt(v) == v.t \in {"float", "int", "bigint", "bool"}

\* float(v) raises OverflowError for an int too large for a double
FloatRaises(v) == v.t = "bigint"

\* float(v), in tenths
Float(v) ==
    CASE v.t = "float" -> v.n
      [] v.t = "int" -> v.n * 10
      [] v.t = "bool" -> IF v.b THEN 10 ELSE 0
      [] OTHER -> 0

\* str(v)
Str(v) ==
    CASE v.t = "str" -> v.s
      [] v.t = "bool" -> IF v.b THEN <<"True">> ELSE <<"False">>
      [] OTHER -> <<"<number>">>

\* One element of the response array: a JSON object with (some of) the three
\* keys, or something that is not an object.
Item(isdict, rel, conf, expl) ==
    [isdict |-> isdict, is_relevant |-> rel, confidence |-> conf, explanation |-> expl]

ItemRelevantHigh == Item(TRUE, JBool(TRUE), JFloat(9), JStr(<<"on topic">>))
ItemNotRelevant == Item(TRUE, JBool(FALSE), JFloat(8), JStr(<<"off topic">>))
ItemRelevantLowMentionsRateLimit ==
    Item(TRUE, JBool(TRUE), JFloat(5),
         JStr(<<"the abstract discusses ", "RateLimitError", " handling">>))
ItemNotDict == Item(FALSE, JAbsent, JAbsent, JAbsent)
ItemMissingKey == Item(TRUE, JBool(TRUE), JAbsent, JStr(<<"on topic">>))
ItemRelevantNotBool == Item(TRUE, JInt(1), JFloat(9), JStr(<<"on topic">>))
ItemConfidenceStr == Item(TRUE, JBool(TRUE), JStr(<<"high">>), JStr(<<"on topic">>))
ItemConfidenceBool == Item(TRUE, JBool(TRUE), JBool(TRUE), JStr(<<"on topic">>))
ItemConfidenceBigInt == Item(TRUE, JBool(TRUE), JBigInt, JStr(<<"on topic">>))

Items ==
    { ItemRelevantHigh, ItemNotRelevant, ItemRelevantLowMentionsRateLimit,
      ItemNotDict, ItemMissingKey, ItemRelevantNotBool, ItemConfidenceStr,
      ItemConfidenceBool, ItemConfidenceBigInt }

\* The items of an array longer than the chunk: one that parses, one that
\* becomes an error verdict, one whose parsing raises.
SurplusItems == { ItemRelevantHigh, ItemNotDict, ItemConfidenceBigInt }

\* The arrays a remote answer for a chunk of n abstracts may hold: every
\* combination of items of every length from 0 to n, and arrays of length
\* n + 1.
Arrays(n) ==
    UNION { [1..len -> Items] : len \in 0..n }
    \cup [1..(n + 1) -> SurplusItems]

\* The arrays tried inside a wrapper object.
WrappedItems == { ItemRelevantHigh, ItemNotDict }
WrappedArrays(n) == UNION { [1..len -> WrappedItems] : len \in 0..(n + 1) }

(***************************************************************************)
(* LLMResponse (src/src/llm/base_checker.py)                               *)
(***************************************************************************)
LLMResponse(is_relevant, confidence, explanation) ==
    [is_relevant |-> is_relevant, confidence |-> confidence, explanation |-> explanation]

\* LLMResponse(explanation=...): the dataclass defaults fill the rest
LLMResponseDefault(explanation) == LLMResponse(FALSE, 0, explanation)

(***************************************************************************)
(* Exceptions: class name and status code; the class hierarchy of the groq *)
(* SDK and of the Python builtins, as far as the handlers tell them apart. *)
(***************************************************************************)
Exc(cls, status_code) == [cls |-> cls, status_code |-> status_code]
NoExc == Exc("", 0)

Bases(cls) ==
    CASE cls = "RateLimitError" -> {"RateLimitError", "APIStatusError", "APIError", "GroqError", "Exception"}
      [] cls = "InternalServerError" -> {"InternalServerError", "APIStatusError", "APIError", "GroqError", "Exception"}
      [] cls = "APIStatusError" -> {"APIStatusError", "APIError", "GroqError", "Exception"}
      [] cls = "APIConnectionError" -> {"APIConnectionError", "APIError", "GroqError", "Exception"}
      [] cls = "JSONDecodeError" -> {"JSONDecodeError", "ValueError", "Exception"}
      [] cls = "ValueError" -> {"ValueError", "Exception"}
      [] cls = "OverflowError" -> {"OverflowError", "ArithmeticError", "Exception"}
      [] cls = "TypeError" -> {"TypeError", "Exception"}
      [] OTHER -> {}

IsInstance(e, cls) == cls \in Bases(e.cls)

(***************************************************************************)
(* GroqChecker._parse_individual_result                                    *)
(***************************************************************************)
EXPL_INVALID_ITEM_TYPE == <<"Invalid item type in LLM response array.">>
ExplInvalidItemStructure(name) ==
    <<"Invalid item structure in LLM response array (", name, ").">>

\* The function either returns an LLMResponse or lets an exception escape.
Returned(resp) == [exc |-> NoExc, resp |-> resp]
Escaped(e) == [exc |-> e, resp |-> LLMResponseDefault(<<>>)]

_parse_individual_result(result_item) ==
    IF ~result_item.isdict
    THEN Returned(LLMResponseDefault(EXPL_INVALID_ITEM_TYPE))
    ELSE IF \/ result_item.is_relevant.t = "absent"
            \/ result_item.confidence.t = "absent"
            \/ result_item.explanation.t = "absent"
         THEN Returned(LLMResponseDefault(ExplInvalidItemStructure("ValueError")))
    ELSE IF ~IsInstanceBool(result_item.is_relevant)
         THEN Returned(LLMResponseDefault(ExplInvalidItemStructure("ValueError")))
    ELSE IF ~IsInstanceFloatInt(result_item.confidence)
         THEN Returned(LLMResponseDefault(ExplInvalidItemStructure("ValueError")))
    ELSE IF FloatRaises(result_item.confidence)
         THEN Escaped(Exc("OverflowError", 0))
    ELSE Returned(LLMResponse(result_item.is_relevant.b,
                              Float(result_item.confidence),
                              Str(result_item.explanation)))

(***************************************************************************)
(* What one call of client.chat.completions.create can do for a chunk:     *)
(* raise, answer without choices, answer without content, or answer with a *)
(* content string.  The content is described by what json.loads makes of   *)
(* it: invalid JSON, a scalar, an array, or an object with one key.        *)
(***************************************************************************)
Outcome(kind, exc, json, key, val_is_list, items) ==
    [kind |-> kind, exc |-> exc, json |-> json, key |-> key,
     val_is_list |-> val_is_list, items |-> items]

Raises(cls, status_code) == Outcome("raise", Exc(cls, status_code), "", "", FALSE, <<>>)
NoChoices == Outcome("no_choices", NoExc, "", "", FALSE, <<>>)
NoContent == Outcome("no_content", NoExc, "", "", FALSE, <<>>)
InvalidJson == Outcome("content", NoExc, "invalid", "", FALSE, <<>>)
ScalarJson == Outcome("content", NoExc, "scalar", "", FALSE, <<>>)
ListJson(items) == Outcome("content", NoExc, "list", "", TRUE, items)
DictJson(key, items) == Outcome("content", NoExc, "dict", key, TRUE, items)
DictJsonNoList(key) == Outcome("content", NoExc, "dict", key, FALSE, <<>>)

RateLimited == Raises("RateLimitError", 429)
TooLarge == Raises("APIStatusError", 413)
ServerError == Raises("InternalServerError", 500)
ConnectionFailed == Raises("APIConnectionError", 0)
Unexpected == Raises("TypeError", 0)

WrapperKeys == {"abstracts", "results"}

Outcomes(n) ==
    { RateLimited, TooLarge, ServerError, ConnectionFailed, Unexpected,
      NoChoices, NoContent, InvalidJson, ScalarJson, DictJsonNoList("abstracts") }
    \cup { ListJson(a) : a \in Arrays(n) }
    \cup { DictJson(k, a) : k \in WrapperKeys, a \in WrappedArrays(n) }

\* What the remote classifier answers during a run of check_papers.
RunItems ==
    { ItemRelevantHigh, ItemNotRelevant, ItemRelevantLowMentionsRateLimit,
      ItemConfidenceBool, ItemNotDict }
RunOutcomes(n) ==
    { ServerError, RateLimited, TooLarge, ConnectionFailed, InvalidJson,
      ListJson(<<>>) }
    \cup { ListJson(a) : a \in [1..n -> RunItems] }

(***************************************************************************)
(* GroqChecker._process_abstract_batch                                     *)
(***************************************************************************)
ExplRateLimit(name) == <<"Error: Groq API rate limit hit (", name, ").">>
EXPL_TOO_LARGE == <<"Error: Request too large for model. ", "Reduce batch_size", ".">>
ExplGroqError(name) == <<"Error: Groq API error (", name, ").">>
ExplParseFailed(name) == <<"Error: Failed to parse/validate batch response (", name, ").">>
ExplUnexpected(name) == <<"Error: Unexpected batch error (", name, ").">>
EXPL_SIZE_MISMATCH == <<"LLM response size mismatch.">>

\* A call either returns a list of responses or lets an exception escape.
ReturnedList(responses) == [exc |-> NoExc, responses |-> responses]
EscapedList(e) == [exc |-> e, responses |-> <<>>]

\* [self._parse_individual_result(res) for res in results_list]: the first
\* exception that escapes a call ends the comprehension.
ParseAll(results_list) ==
    LET parsed == [j \in DOMAIN results_list |-> _parse_individual_result(results_list[j])]
        failing == { j \in DOMAIN parsed : parsed[j].exc # NoExc }
    IN  IF failing = {}
        THEN ReturnedList([j \in DOMAIN parsed |-> parsed[j].resp])
        ELSE EscapedList(parsed[CHOOSE j \in failing : \A k \in failing : j <= k].exc)

\* The body of the try statement (lines 148-204).
TryBody(batch_actual_size, outcome) ==
    IF outcome.kind = "raise" THEN EscapedList(outcome.exc)
    ELSE IF outcome.kind \in {"no_choices", "no_content"} THEN EscapedList(Exc("ValueError", 0))
    ELSE IF outcome.json = "invalid" THEN EscapedList(Exc("JSONDecodeError", 0))
    ELSE IF ~ (\/ outcome.json = "dict" /\ outcome.key = "abstracts"
               \/ outcome.json = "list")
         THEN EscapedList(Exc("ValueError", 0))
    ELSE IF ~outcome.val_is_list THEN EscapedList(Exc("ValueError", 0))
    ELSE LET results_list == outcome.items
             parsed == ParseAll(results_list)
         IN  IF Len(results_list) # batch_actual_size
             THEN IF parsed.exc # NoExc
                  THEN parsed
                  ELSE ReturnedList(
                         Take(parsed.responses
                                \o Repeat(LLMResponseDefault(EXPL_SIZE_MISMATCH),
                                          batch_actual_size - Len(results_list)),
                              batch_actual_size))
             ELSE parsed

\* The except clauses without the status-code test of line 217: a 413 is
\* reported like any other provider error.
HandlersNoTooLarge(batch_actual_size, e) ==
    IF IsInstance(e, "RateLimitError")
    THEN ReturnedList(Repeat(LLMResponseDefault(ExplRateLimit(e.cls)), batch_actual_size))
    ELSE IF IsInstance(e, "APIStatusError") /\ e.status_code # 413
         THEN EscapedList(e)
    ELSE IF IsInstance(e, "APIConnectionError") \/ IsInstance(e, "GroqError")
         THEN ReturnedList(Repeat(LLMResponseDefault(ExplGroqError(e.cls)), batch_actual_size))
    ELSE IF \/ IsInstance(e, "JSONDecodeError") \/ IsInstance(e, "KeyError")
            \/ IsInstance(e, "ValueError") \/ IsInstance(e, "IndexError")
         THEN ReturnedList(Repeat(LLMResponseDefault(ExplParseFailed(e.cls)), batch_actual_size))
    ELSE ReturnedList(Repeat(LLMResponseDefault(ExplUnexpected(e.cls)), batch_actual_size))

\* The except clauses (lines 206-237), tried in order; an exception raised
\* inside a clause leaves the try statement.
Handlers(batch_actual_size, e) ==
    IF IsInstance(e, "RateLimitError")
    THEN ReturnedList(Repeat(LLMResponseDefault(ExplRateLimit(e.cls)), batch_actual_size))
    ELSE IF IsInstance(e, "APIStatusError")
         THEN IF e.status_code = 413
              THEN ReturnedList(Repeat(LLMResponseDefault(EXPL_TOO_LARGE), batch_actual_size))
              ELSE EscapedList(e)
    ELSE IF IsInstance(e, "APIConnectionError") \/ IsInstance(e, "GroqError")
         THEN ReturnedList(Repeat(LLMResponseDefault(ExplGroqError(e.cls)), batch_actual_size))
    ELSE IF \/ IsInstance(e, "JSONDecodeError") \/ IsInstance(e, "KeyError")
            \/ IsInstance(e, "ValueError") \/ IsInstance(e, "IndexError")
         THEN ReturnedList(Repeat(LLMResponseDefault(ExplParseFailed(e.cls)), batch_actual_size))
    ELSE ReturnedList(Repeat(LLMResponseDefault(ExplUnexpected(e.cls)), batch_actual_size))

_process_abstract_batch(batch_actual_size, outcome) ==
    IF batch_actual_size = 0
    THEN ReturnedList(<<>>)
    ELSE LET body == TryBody(batch_actual_size, outcome)
         IN  IF body.exc = NoExc THEN body ELSE Handlers(batch_actual_size, body.exc)

(***************************************************************************)
(* State                                                                   *)
(***************************************************************************)
VARIABLES
    \* GroqChecker instance and one call of check_relevance_batch
    g_pc,                 \* "constructed", "loop", "returned", "raised"
    batch_size,           \* self.batch_size
    batch_delay_seconds,  \* self.batch_delay_seconds
    abstracts,            \* the argument: abstract k is the number k
    i,                    \* loop variable of line 288 (0-based)
    all_responses,        \* all_responses
    processed_count,      \* processed_count
    response_for,         \* history: the abstract each response was produced for
    log,                  \* history: requests sent and sleeps, in order
    last,                 \* history: the chunk processed last
    \* one run of check_papers (src/main.py)
    m_pc,                 \* "init", "fetching", "start", "fetched", "llm", "summary", "notify", "done", "returned"
    checking_method,      \* checking_method
    confidence_threshold, \* confidence_threshold, in tenths
    checker_fails,        \* input: create_relevance_checker returns None
    all_fetched_papers,   \* all_fetched_papers
    relevance,            \* paper.relevance of each fetched paper
    relevant_papers,      \* relevant_papers, as positions in all_fetched_papers
    \* one source object and one call of its fetch_papers
    s_pc,                 \* "configured", "loop", "returned", "raised"
    source_class,         \* "ArxivSource", "BiorxivSource", "MedrxivSource"
    categories,           \* self.categories
    max_total_results,    \* self.max_total_results (Optional)
    papers,               \* papers, by id; the returned list once s_pc = "returned"
    cursor,               \* cursor
    total_results,        \* total_results
    processed_dois,       \* processed_dois
    papers_collected_count, \* papers_collected_count
    requests,             \* history: the cursor of every page requested
    received,             \* history: the id of every record received, in order
    start_time_utc,       \* argument of fetch_papers
    end_time_utc,         \* argument of fetch_papers
    last_page,            \* history: the answer to the page requested last
    truncation_warnings,  \* history: the fetch limit of every warning logged
    \* the configuration of a run and the source loop of check_papers
    active_sources,       \* config["active_sources"]
    relevance_checking_method, \* config["relevance_checking_method"] (Optional)
    source_keywords,      \* config["paper_source"][name]["keywords"]
    source_instances,     \* source_instances: the names, in insertion order
    source_stats,         \* source_stats
    fetch_log,            \* history: every fetch_papers call and how it ended
    strategies_applied,   \* history: the relevance strategies that were run
    send_email_summary,   \* config["send_email_summary"]
    handlers_available,   \* input: create_output_handlers returns a handler
    handlers_created,     \* history: the calls of create_output_handlers
    output_calls,         \* history: the list handed to every handler.output
    summaries,            \* history: the run_stats of every summary sent
    \* one relevance filter object and one call of its filter method
    f_pc,                 \* "constructed", "configured", "returned", "raised"
    filter_class,         \* "KeywordFilter", "SentenceTransformerFilter"
    keywords,             \* KeywordFilter: self.keywords
    st_filter,            \* SentenceTransformerFilter: the attributes of self
    f_papers,             \* the argument of filter, with the annotations it sets
    encoding,             \* input: what the embedding model does in this call
    f_result,             \* the returned list, as positions in f_papers
    \* Scheduler.run (src/src/scheduler.py)
    h_pc,                 \* "created", "initial", "pending", "sleep", "handler_sleep", "returned", "raised"
    h_log,                \* history: what run() has called so far and how each call ended
    \* one paginated fetch replayed against the same server pages twice
    t_pc,                 \* "loop" while a compared call is under way, "done"
    t_in,                 \* input: the totals the server declares; the number of answers given
    t_out                 \* per compared call: its loop state and the cursors it requested

gvars == <<g_pc, batch_size, batch_delay_seconds, abstracts, i, all_responses,
           processed_count, response_for, log, last>>

mvars == <<m_pc, checking_method, confidence_threshold, checker_fails,
           all_fetched_papers, relevance, relevant_papers>>

svars == <<s_pc, source_class, categories, max_total_results, papers, cursor,
           total_results, processed_dois, papers_collected_count, requests,
           received, start_time_utc, end_time_utc, last_page,
           truncation_warnings>>

ovars == <<send_email_summary, handlers_available, handlers_created,
           output_calls, summaries>>

rvars == <<active_sources, relevance_checking_method, source_keywords,
           source_instances, source_stats, fetch_log, strategies_applied, ovars>>

fvars == <<f_pc, filter_class, keywords, st_filter, f_papers, encoding, f_result>>

hvars == <<h_pc, h_log>>

tvars == <<t_pc, t_in, t_out>>

vars == <<gvars, mvars, svars, rvars, fvars, hvars, tvars>>

Send(start, n) == [op |-> "send", at |-> start, n |-> n]
Sleep(seconds) == [op |-> "sleep", at |-> seconds, n |-> 0]

Chunk(start, n, outcome, result, slept) ==
    [valid |-> TRUE, start |-> start, n |-> n, outcome |-> outcome,
     result |-> result, slept |-> slept]
NoChunk ==
    [valid |-> FALSE, start |-> 0, n |-> 0, outcome |-> NoContent,
     result |-> ReturnedList(<<>>), slept |-> None]

(***************************************************************************)
(* GroqChecker.__init__ (lines 64-70): the accepted settings               *)
(***************************************************************************)
BatchSizeInputs == {None} \cup { Some(b) : b \in 0..MaxBatchSize }
BatchDelayInputs == {None, Some(-1), Some(0), Some(30)}

InitBatchSize(arg) ==
    IF arg.some /\ arg.v > 0 THEN arg.v ELSE DEFAULT_BATCH_SIZE

InitBatchDelay(arg) ==
    IF arg.some /\ arg.v >= 0 THEN arg.v ELSE DEFAULT_BATCH_DELAY_SECONDS

GroqConstructed ==
    /\ g_pc = "constructed"
    /\ batch_size \in { InitBatchSize(b) : b \in BatchSizeInputs }
    /\ batch_delay_seconds \in { InitBatchDelay(d) : d \in BatchDelayInputs }
    /\ abstracts = <<>>
    /\ i = 0
    /\ all_responses = <<>>
    /\ processed_count = 0
    /\ response_for = <<>>
    /\ log = <<>>
    /\ last = NoChunk

(***************************************************************************)
(* GroqChecker.check_relevance_batch                                       *)
(***************************************************************************)
\* Lines 276-286: entry, the empty input returns at once.
Enter(total) ==
    /\ g_pc = "constructed"
    /\ abstracts' = [k \in 1..total |-> k]
    /\ g_pc' = IF total = 0 THEN "returned" ELSE "loop"
    /\ i' = 0
    /\ all_responses' = <<>>
    /\ processed_count' = 0
    /\ UNCHANGED <<batch_size, batch_delay_seconds, response_for, log, last>>

\* any("RateLimitError" in resp.explanation for resp in batch_responses)
AnyRateLimit(batch_responses) ==
    \E j \in DOMAIN batch_responses :
        Contains(batch_responses[j].explanation, "RateLimitError")

\* Lines 303-310: the sleep that ends a loop iteration, None for no sleep.
SleepAfterBatch(batch_responses, start, total_abstracts) ==
    IF AnyRateLimit(batch_responses) THEN Some(RATE_LIMIT_SLEEP_SECONDS)
    ELSE IF start + batch_size < total_abstracts THEN Some(batch_delay_seconds)
    ELSE None

\* The answers the remote classifier may give to a chunk of n abstracts: all
\* of them for a direct call, a selection inside a run of check_papers.
RemoteOutcomes(n) == IF m_pc = "idle" THEN Outcomes(n) ELSE RunOutcomes(n)

\* Lines 288-310: one iteration of the loop; after the last one the
\* function returns all_responses (line 321).
ProcessBatchIteration ==
    /\ g_pc = "loop"
    /\ LET total_abstracts == Len(abstracts)
           batch_end_index == Min(i + batch_size, total_abstracts)
           abstract_batch == SubSeq(abstracts, i + 1, batch_end_index)
       IN  \E outcome \in RemoteOutcomes(Len(abstract_batch)) :
           \E result \in {_process_abstract_batch(Len(abstract_batch), outcome)} :
           \E slept \in {SleepAfterBatch(result.responses, i, total_abstracts)} :
             IF result.exc # NoExc
             THEN /\ g_pc' = "raised"
                  /\ log' = Append(log, Send(i, Len(abstract_batch)))
                  /\ last' = Chunk(i, Len(abstract_batch), outcome, result, None)
                  /\ UNCHANGED <<i, all_responses, processed_count, response_for>>
             ELSE /\ all_responses' = all_responses \o result.responses
                  /\ response_for' =
                       response_for \o
                       [j \in DOMAIN result.responses |->
                          IF j <= Len(abstract_batch) THEN abstract_batch[j] ELSE 0]
                  /\ processed_count' = processed_count + Len(abstract_batch)
                  /\ log' = log \o <<Send(i, Len(abstract_batch))>>
                                \o (IF slept.some THEN <<Sleep(slept.v)>> ELSE <<>>)
                  /\ last' = Chunk(i, Len(abstract_batch), outcome, result, slept)
                  /\ i' = i + batch_size
                  /\ g_pc' = IF i + batch_size < total_abstracts
                             THEN "loop" ELSE "returned"
    /\ UNCHANGED <<batch_size, batch_delay_seconds, abstracts>>

(***************************************************************************)
(* check_papers (src/main.py), the relevance step in LLM mode              *)
(***************************************************************************)
DEFAULT_CONFIDENCE_THRESHOLD == 7

\* A Paper: uid is its position in all_fetched_papers; the title is one of
\* two words, each of which a source may have as its keyword.
Paper(uid, title, abstract, source) ==
    [uid |-> uid, title |-> title, abstract |-> abstract, source |-> source]
Titles == {"plain", "kw"}
AbstractTexts == {"", "text"}

NoRelevance == [set |-> FALSE, confidence |-> 0, explanation |-> <<>>]
Relevance(response) ==
    [set |-> TRUE, confidence |-> response.confidence,
     explanation |-> response.explanation]

\* The names create_paper_source knows (main.py 95-101) and one it does not.
SourceNames == {"arxiv", "biorxiv", "medrxiv", "pubmed"}
NoKeywords == [name \in SourceNames |-> <<>>]

\* No scheduler has been started.
SchedulerIdle ==
    /\ h_pc = "idle"
    /\ h_log = <<>>

\* No comparison of two fetches is under way.
TwinIdle ==
    /\ t_pc = "idle"
    /\ t_in = <<>>
    /\ t_out = <<>>

RunIdle ==
    /\ active_sources = <<>>
    /\ relevance_checking_method = None
    /\ source_keywords = NoKeywords
    /\ source_instances = <<>>
    /\ source_stats = <<>>
    /\ fetch_log = <<>>
    /\ strategies_applied = <<>>
    /\ send_email_summary = FALSE
    /\ handlers_available = FALSE
    /\ handlers_created = 0
    /\ output_calls = <<>>
    /\ summaries = <<>>

\* No filter object exists.
NoSelf == [configured |-> FALSE, model |-> FALSE, target_embeddings |-> FALSE,
           similarity_threshold |-> 0, target_texts |-> <<>>]
NoEncoding == [kind |-> "none", similarities |-> <<>>]

FilterIdle ==
    /\ f_pc = "idle"
    /\ filter_class = ""
    /\ keywords = <<>>
    /\ st_filter = NoSelf
    /\ f_papers = <<>>
    /\ encoding = NoEncoding
    /\ f_result = <<>>

MainIdle ==
    /\ RunIdle
    /\ m_pc = "idle"
    /\ checking_method = ""
    /\ confidence_threshold = 0
    /\ checker_fails = FALSE
    /\ all_fetched_papers = <<>>
    /\ relevance = <<>>
    /\ relevant_papers = <<>>

\* One answer of the bioRxiv API to a page request.  total, cursor and count
\* are what int() makes of the fields of messages[0], None when it raises.
Page(kind, total, cursor_val, count_val, collection) ==
    [kind |-> kind, total |-> total, cursor_val |-> cursor_val,
     count_val |-> count_val, collection |-> collection]

NoPage == Page("none", None, None, None, <<>>)

SourceIdle ==
    /\ s_pc = "idle"
    /\ source_class = ""
    /\ categories = {}
    /\ max_total_results = None
    /\ papers = <<>>
    /\ cursor = 0
    /\ total_results = -1
    /\ processed_dois = {}
    /\ papers_collected_count = 0
    /\ requests = <<>>
    /\ received = <<>>
    /\ start_time_utc = 0
    /\ end_time_utc = 0
    /\ last_page = NoPage
    /\ truncation_warnings = <<>>

InitGroq ==
    /\ GroqConstructed /\ MainIdle /\ SourceIdle /\ FilterIdle
    /\ SchedulerIdle /\ TwinIdle

\* A direct call of check_relevance_batch.
CheckRelevanceBatchEnter ==
    /\ m_pc = "idle"
    /\ \E total \in 0..MaxAbstracts : Enter(total)
    /\ UNCHANGED <<mvars, svars, rvars, fvars, hvars, tvars>>

ProcessBatch ==
    /\ m_pc = "idle"
    /\ ProcessBatchIteration
    /\ UNCHANGED <<mvars, svars, rvars, fvars, hvars, tvars>>

NextGroq == CheckRelevanceBatchEnter \/ ProcessBatch

SpecGroq == InitGroq /\ [][NextGroq]_vars

\* The settings and inputs of a run: the checker built from the
\* configuration, the threshold of line 320, the configured method.
ThresholdInputs == {None, Some(0), Some(10)}
RunBatchSizeInputs == {None, Some(1)}

\* llm_provider_config.get("confidence_threshold", 0.7)
GetConfidenceThreshold(setting) ==
    IF setting.some THEN setting.v ELSE DEFAULT_CONFIDENCE_THRESHOLD

InitMain ==
    /\ SchedulerIdle /\ TwinIdle
    /\ g_pc = "constructed"
    /\ batch_size \in { InitBatchSize(b) : b \in RunBatchSizeInputs }
    /\ batch_delay_seconds = InitBatchDelay(None)
    /\ abstracts = <<>>
    /\ i = 0
    /\ all_responses = <<>>
    /\ processed_count = 0
    /\ response_for = <<>>
    /\ log = <<>>
    /\ last = NoChunk
    /\ m_pc = "start"
    /\ checking_method = "llm"
    /\ confidence_threshold \in { GetConfidenceThreshold(t) : t \in ThresholdInputs }
    /\ checker_fails \in BOOLEAN
    /\ all_fetched_papers = <<>>
    /\ relevance = <<>>
    /\ relevant_papers = <<>>
    /\ SourceIdle
    /\ RunIdle
    /\ FilterIdle

\* Lines 258-299: the fetch loop leaves the merged list of the papers of all
\* sources; every paper is a fresh object without annotation.
FetchPapers ==
    /\ m_pc = "start"
    /\ \E count \in 0..MaxPapers :
       \E texts \in [1..count -> AbstractTexts] :
         /\ all_fetched_papers' = [u \in 1..count |-> Paper(u, "plain", texts[u], "biorxiv")]
         /\ relevance' = [u \in 1..count |-> NoRelevance]
    /\ m_pc' = "fetched"
    /\ UNCHANGED <<checking_method, confidence_threshold, checker_fails, relevant_papers>>
    /\ UNCHANGED <<gvars, svars, rvars, fvars, hvars, tvars>>

\* Line 322: [p for p in all_fetched_papers if p.abstract]
PapersWithAbstractsAll(fetched) == fetched
PapersWithAbstracts(fetched) == SelectSeq(fetched, LAMBDA p : p.abstract # "")

\* KeywordFilter.filter (keyword_filter.py 86-108): a keyword that is a
\* substring of the lower-cased title and abstract.
KeywordMatches(paper, source_kws) ==
    \E j \in DOMAIN source_kws : source_kws[j] \in {paper.title, paper.abstract}

\* Lines 364-371: the papers of a source without keywords are not added to
\* the relevant list ("continue").
ExtendWithoutKeywords(paper) == TRUE
KeptWithoutKeywords(paper) == FALSE

\* Lines 346-383: the papers are grouped by their source field and each
\* group is filtered by the keywords configured under that name.
KeywordRelevant(fetched) ==
    LET kept == SelectSeq(fetched,
                    LAMBDA p : IF source_keywords[p.source] = <<>>
                               THEN KeptWithoutKeywords(p)
                               ELSE KeywordMatches(p, source_keywords[p.source]))
    IN  [j \in DOMAIN kept |-> kept[j].uid]

\* Lines 385-387: without a check every fetched paper is relevant, once.
AllPositionsTwice(fetched) ==
    [u \in DOMAIN fetched |-> u] \o [u \in DOMAIN fetched |-> u]
AllPositions(fetched) == [u \in DOMAIN fetched |-> u]

\* Lines 342-344: without a checker the method becomes "none"
KeepMethod(method) == method
FallbackMethod(method) == "none"

\* Lines 301-323, 340-387: the choice of the strategy, up to the call of the
\* checker in LLM mode and to the relevance summary in every other mode.
RelevanceStart ==
    /\ m_pc = "fetched"
    /\ IF all_fetched_papers = <<>>
       THEN /\ m_pc' = "summary"
            /\ UNCHANGED <<checking_method, relevant_papers, strategies_applied>>
            /\ UNCHANGED gvars
       ELSE IF checking_method = "llm"
       THEN IF checker_fails
            THEN /\ checking_method' = FallbackMethod(checking_method)
                 /\ relevant_papers' = AllPositions(all_fetched_papers)
                 /\ m_pc' = "summary"
                 /\ UNCHANGED strategies_applied
                 /\ UNCHANGED gvars
            ELSE /\ strategies_applied' = Append(strategies_applied, "llm")
                 /\ IF PapersWithAbstracts(all_fetched_papers) # <<>>
                    THEN /\ Enter(Len(PapersWithAbstracts(all_fetched_papers)))
                         /\ m_pc' = "llm"
                         /\ UNCHANGED <<checking_method, relevant_papers>>
                         /\ UNCHANGED <<batch_size, batch_delay_seconds, response_for,
                                        log, last, all_responses, processed_count>>
                    ELSE /\ m_pc' = "summary"
                         /\ UNCHANGED <<checking_method, relevant_papers>>
                         /\ UNCHANGED gvars
       ELSE IF checking_method = "keyword"
       THEN /\ strategies_applied' = Append(strategies_applied, "keyword")
            /\ relevant_papers' = KeywordRelevant(all_fetched_papers)
            /\ m_pc' = "summary"
            /\ UNCHANGED checking_method
            /\ UNCHANGED gvars
       ELSE IF checking_method = "none"
       THEN /\ relevant_papers' = AllPositions(all_fetched_papers)
            /\ m_pc' = "summary"
            /\ UNCHANGED <<checking_method, strategies_applied>>
            /\ UNCHANGED gvars
       ELSE /\ m_pc' = "summary"
            /\ UNCHANGED <<checking_method, relevant_papers, strategies_applied>>
            /\ UNCHANGED gvars
    /\ UNCHANGED <<confidence_threshold, checker_fails, all_fetched_papers, relevance>>
    /\ UNCHANGED <<active_sources, relevance_checking_method, source_keywords,
                   source_instances, source_stats, fetch_log, ovars>>
    /\ UNCHANGED <<svars, fvars, hvars, tvars>>

\* Line 326: the loop of check_relevance_batch, run inside check_papers.
RelevanceBatch ==
    /\ m_pc = "llm"
    /\ ProcessBatchIteration
    /\ UNCHANGED <<mvars, svars, rvars, fvars, hvars, tvars>>

\* Line 330: response.is_relevant and response.confidence >= confidence_threshold
ConfidenceOnly(response) == response.confidence >= confidence_threshold
IsRelevant(response) ==
    response.is_relevant /\ response.confidence >= confidence_threshold

\* Lines 337-338: the exception of the batch check is logged and the run
\* goes on to the relevance summary, as after a return.
AbortOnBatchError(pc) == IF pc = "raised" THEN "returned" ELSE "summary"
AfterBatch(pc) == "summary"

\* Lines 326-339: the checker returned or raised; zip the responses with the
\* papers that have an abstract.
RelevanceFinish ==
    /\ m_pc = "llm"
    /\ g_pc \in {"returned", "raised"}
    /\ LET papers_with_abstracts == PapersWithAbstracts(all_fetched_papers)
           responses == IF g_pc = "returned" THEN all_responses ELSE <<>>
           zipped == 1..Min(Len(papers_with_abstracts), Len(responses))
           chosen == { k \in zipped : IsRelevant(responses[k]) }
       IN  /\ relevance' =
                [u \in DOMAIN relevance |->
                   IF \E k \in chosen : papers_with_abstracts[k].uid = u
                   THEN Relevance(responses[CHOOSE k \in chosen :
                                               papers_with_abstracts[k].uid = u])
                   ELSE relevance[u]]
           /\ relevant_papers' =
                LET picked == SelectSeq([k \in 1..Len(papers_with_abstracts) |-> k],
                                        LAMBDA k : k \in chosen)
                IN  [j \in DOMAIN picked |-> papers_with_abstracts[picked[j]].uid]
    /\ m_pc' = AfterBatch(g_pc)
    /\ UNCHANGED <<checking_method, confidence_threshold, checker_fails, all_fetched_papers>>
    /\ UNCHANGED <<gvars, svars, rvars, fvars, hvars, tvars>>

NextMain == FetchPapers \/ RelevanceStart \/ RelevanceBatch \/ RelevanceFinish

SpecMain == InitMain /\ [][NextMain]_vars

(***************************************************************************)
(* check_papers (src/main.py), a whole run: sources, fetch loop, strategy  *)
(***************************************************************************)
\* name.lower() of the names of the model, and of the method setting "LLM"
Lower(name) == IF name = "LLM" THEN "llm" ELSE name

\* main.py 95-101: the class create_paper_source instantiates for a name
SourceClassOf(name) ==
    IF Lower(name) = "arxiv" THEN "ArxivSource"
    ELSE IF Lower(name) = "biorxiv" THEN "BiorxivSource"
    ELSE IF Lower(name) = "medrxiv" THEN "MedrxivSource"
    ELSE ""

\* The number of arguments configure takes besides self: ArxivSource
\* (arxiv_source.py 35) takes config, the cursor sources take config and
\* source_name (biorxiv_source.py 39, medrxiv_source.py 40).
ConfigureArity(class) == IF class = "ArxivSource" THEN 1 ELSE 2

\* main.py 75-123: create_paper_source returns an instance (TRUE) or None.
\* Line 109 calls configure(config, source_name_lower), two arguments; a
\* call that does not fit raises TypeError, which line 118 turns into None.
ConfigureAccepts(class) == ConfigureArity(class) = 2
create_paper_source(name) ==
    SourceClassOf(name) # "" /\ ConfigureAccepts(SourceClassOf(name))

\* Lines 237-243: the dict of the created sources, keyed by name; a name
\* listed twice keeps its first position.
RECURSIVE InitializedSources(_, _)
InitializedSources(names, instances) ==
    IF names = <<>> THEN instances
    ELSE InitializedSources(Tail(names),
             IF create_paper_source(Head(names)) /\ ~Contains(instances, Head(names))
             THEN Append(instances, Head(names))
             ELSE instances)

\* Line 301: config.get("relevance_checking_method", "keyword").lower()
GetCheckingMethod(setting) ==
    IF setting.some THEN Lower(setting.v) ELSE "keyword"

MethodSettings ==
    {None} \cup { Some(v) : v \in {"keyword", "llm", "LLM",
                                   "local_sentence_transformer", "none"} }

\* The keywords a source has when it has any: "kw" for bioRxiv, "plain" for
\* medRxiv.
KeywordsOf(name) == IF name = "medrxiv" THEN <<"plain">> ELSE <<"kw">>

\* The configurations of a run.  Keywords matter to the keyword method only
\* and the checker to the LLM method only.
InitRun ==
    /\ SchedulerIdle /\ TwinIdle
    /\ GroqConstructed /\ batch_size = DEFAULT_BATCH_SIZE
    /\ batch_delay_seconds = DEFAULT_BATCH_DELAY_SECONDS
    /\ SourceIdle
    /\ FilterIdle
    /\ m_pc = "init"
    /\ active_sources \in UNION { [1..len -> SourceNames] : len \in 0..MaxSources }
    /\ relevance_checking_method \in MethodSettings
    /\ checking_method = GetCheckingMethod(relevance_checking_method)
    /\ source_keywords \in
         IF checking_method = "keyword"
         THEN { [name \in SourceNames |->
                   IF name \in with_keywords THEN KeywordsOf(name) ELSE <<>>] :
                with_keywords \in SUBSET {"biorxiv", "medrxiv"} }
         ELSE {NoKeywords}
    /\ checker_fails \in IF checking_method = "llm" THEN BOOLEAN ELSE {FALSE}
    /\ confidence_threshold = GetConfidenceThreshold(None)
    /\ all_fetched_papers = <<>>
    /\ relevance = <<>>
    /\ relevant_papers = <<>>
    /\ source_instances = <<>>
    /\ source_stats = <<>>
    /\ fetch_log = <<>>
    /\ strategies_applied = <<>>
    /\ send_email_summary \in BOOLEAN
    /\ handlers_available \in BOOLEAN
    /\ handlers_created = 0
    /\ output_calls = <<>>
    /\ summaries = <<>>

\* Lines 226-247: the sources are created; without any, the run returns.
InitializeSources ==
    /\ m_pc = "init"
    /\ source_instances' = InitializedSources(active_sources, <<>>)
    /\ m_pc' = IF source_instances' = <<>> THEN "returned" ELSE "fetching"
    /\ UNCHANGED <<checking_method, confidence_threshold, checker_fails,
                   all_fetched_papers, relevance, relevant_papers>>
    /\ UNCHANGED <<active_sources, relevance_checking_method, source_keywords,
                   source_stats, fetch_log, strategies_applied, ovars>>
    /\ UNCHANGED <<gvars, svars, fvars, hvars, tvars>>

\* How a fetch_papers call ends, seen from check_papers: it returns papers,
\* it returns [] after a failure it handled itself, or it raises.
FetchOutcome(kind, fetched) == [kind |-> kind, fetched |-> fetched]
FetchOutcomes ==
    { FetchOutcome("failed", <<>>), FetchOutcome("raised", <<>>) }
    \cup { FetchOutcome("returned", fetched) :
             fetched \in UNION { [1..len -> [title : Titles, abstract : AbstractTexts]] :
                                   len \in 0..MaxFetched } }

\* The entry of source_stats: lines 271-276 after a return, 283-289 after an
\* exception.
Stats(count, error) == [fetched |-> count, error |-> error]

\* Lines 258-290: the loop goes on with the next source, whatever the
\* outcome of this one.
AbortAfterRaise(kind, is_last) ==
    IF is_last \/ kind = "raised" THEN "fetched" ELSE "fetching"
AfterFetch(kind, is_last) == IF is_last THEN "fetched" ELSE "fetching"

\* Lines 258-290: one iteration of the fetch loop.
\* The source field of the papers of an instance: "arxiv" (arxiv_source.py
\* 205), SERVER_NAME (medrxiv_source.py 244), and for BiorxivSource the
\* configured server, "biorxiv" or "medrxiv" (biorxiv_source.py 57-68, 257).
Servers(name) ==
    IF Lower(name) = "biorxiv" THEN {"biorxiv", "medrxiv"} ELSE {Lower(name)}

FetchSource ==
    /\ m_pc = "fetching"
    /\ LET k == Len(fetch_log) + 1
           name == source_instances[k]
           base == Len(all_fetched_papers)
       IN  \E outcome \in FetchOutcomes, server \in Servers(name) :
             /\ fetch_log' = Append(fetch_log, [name |-> name, kind |-> outcome.kind])
             /\ IF outcome.kind = "raised"
                THEN /\ source_stats' = (name :> Stats(0, TRUE)) @@ source_stats
                     /\ UNCHANGED <<all_fetched_papers, relevance>>
                ELSE /\ all_fetched_papers' = all_fetched_papers \o
                          [u \in DOMAIN outcome.fetched |->
                             Paper(base + u, outcome.fetched[u].title,
                                   outcome.fetched[u].abstract, server)]
                     /\ relevance' = relevance \o
                          [u \in DOMAIN outcome.fetched |-> NoRelevance]
                     /\ source_stats' =
                          (name :> Stats(Len(outcome.fetched), FALSE)) @@ source_stats
             /\ m_pc' = AfterFetch(outcome.kind, k = Len(source_instances))
    /\ UNCHANGED <<checking_method, confidence_threshold, checker_fails, relevant_papers>>
    /\ UNCHANGED <<active_sources, relevance_checking_method, source_keywords,
                   source_instances, strategies_applied, ovars>>
    /\ UNCHANGED <<gvars, svars, fvars, hvars, tvars>>

\* Line 298: sum(stats["fetched"] for stats in source_stats.values())
RECURSIVE SumFetched(_, _)
SumFetched(stats, names) ==
    IF names = {} THEN 0
    ELSE LET name == CHOOSE n \in names : TRUE
         IN  stats[name].fetched + SumFetched(stats, names \ {name})

\* Lines 404-426: the output handlers are created only when there are
\* relevant papers, and every handler created is handed the relevant list.
OutputAlways(relevant) == TRUE
ShouldOutput(relevant) == relevant # <<>>

OutputRelevant ==
    /\ m_pc = "summary"
    /\ IF ShouldOutput(relevant_papers)
       THEN /\ handlers_created' = handlers_created + 1
            /\ output_calls' = IF handlers_available
                               THEN Append(output_calls, relevant_papers)
                               ELSE output_calls
       ELSE UNCHANGED <<handlers_created, output_calls>>
    /\ m_pc' = "notify"
    /\ UNCHANGED <<checking_method, confidence_threshold, checker_fails,
                   all_fetched_papers, relevance, relevant_papers>>
    /\ UNCHANGED <<active_sources, relevance_checking_method, source_keywords,
                   source_instances, source_stats, fetch_log, strategies_applied,
                   send_email_summary, handlers_available, summaries>>
    /\ UNCHANGED <<gvars, svars, fvars, hvars, tvars>>

\* Lines 459-468, 473: run_stats, the statistics handed to send_summary_email
RunStats ==
    [total_fetched |-> SumFetched(source_stats, DOMAIN source_stats),
     total_relevant |-> Len(relevant_papers),
     checking_method |-> checking_method,
     relevant_papers |-> relevant_papers]

\* Line 440: config.get("send_email_summary", False)
SummaryEnabled(setting) == setting

\* Lines 428-474: send_summary_email is called when the top-level setting
\* send_email_summary is on; the run ends.
SendSummary ==
    /\ m_pc = "notify"
    /\ summaries' = IF SummaryEnabled(send_email_summary)
                    THEN Append(summaries, RunStats)
                    ELSE summaries
    /\ m_pc' = "done"
    /\ UNCHANGED <<checking_method, confidence_threshold, checker_fails,
                   all_fetched_papers, relevance, relevant_papers>>
    /\ UNCHANGED <<active_sources, relevance_checking_method, source_keywords,
                   source_instances, source_stats, fetch_log, strategies_applied,
                   send_email_summary, handlers_available, handlers_created,
                   output_calls>>
    /\ UNCHANGED <<gvars, svars, fvars, hvars, tvars>>

NextRun ==
    \/ InitializeSources
    \/ FetchSource
    \/ RelevanceStart
    \/ RelevanceBatch
    \/ RelevanceFinish
    \/ OutputRelevant
    \/ SendSummary

SpecRun == InitRun /\ [][NextRun]_vars

(***************************************************************************)
(* Paper sources (src/src/paper_sources)                                   *)
(*                                                                         *)
(* A paper is its id: the versioned short id of arXiv, the DOI of bioRxiv  *)
(* and medRxiv.  The ids are 1..MaxDoi; 0 is a record without a DOI.       *)
(***************************************************************************)
DEFAULT_MAX_RESULTS == 500

Ids == 1..MaxDoi
SourceClasses == {"ArxivSource", "BiorxivSource", "MedrxivSource"}
CursorSources == {"BiorxivSource", "MedrxivSource"}

\* A datetime is a number of time units.  A second has UnitsPerSecond units
\* (the microseconds of a datetime), a day has SecondsPerDay seconds.
UnitsPerSecond == 2
SecondsPerDay == 2
MaxTime == (MaxDay + 1) * SecondsPerDay * UnitsPerSecond - 1
Times == 0..MaxTime

\* t.strftime("%Y%m%d%H%M%S"): the second of t
FormatSecond(t) == t \div UnitsPerSecond

\* t.strftime("%Y-%m-%d"): the day of t
FormatDay(t) == t \div (UnitsPerSecond * SecondsPerDay)

\* datetime.strptime(date_str, "%Y-%m-%d").replace(tzinfo=timezone.utc)
ParseDay(day) == day * SecondsPerDay * UnitsPerSecond

\* The remote catalogues: record id was posted (arXiv: last updated) at a
\* whole second, on the day of that second.
CatalogSecond(id) == (id - 1) % ((MaxDay + 1) * SecondsPerDay)
CatalogDay(id) == CatalogSecond(id) \div SecondsPerDay

\* The records arXiv returns for lastUpdatedDate:[start_str TO end_str]
ArxivMatches(id) ==
    /\ FormatSecond(start_time_utc) <= CatalogSecond(id)
    /\ CatalogSecond(id) <= FormatSecond(end_time_utc)

\* The records the bioRxiv API returns for the interval start_date/end_date;
\* 0 is a record without DOI.
CursorMatches(id) ==
    \/ id = 0
    \/ /\ FormatDay(start_time_utc) <= CatalogDay(id)
       /\ CatalogDay(id) <= FormatDay(end_time_utc)

\* Paper.published_date of the paper built from record id: result.updated
\* for arXiv, the parsed "date" field for bioRxiv and medRxiv.
PublishedDate(id) ==
    IF source_class = "ArxivSource"
    THEN CatalogSecond(id) * UnitsPerSecond
    ELSE ParseDay(CatalogDay(id))

\* result.get_short_id(): the arXiv id with its version, "2401.01234v2".
\* Versions 1..MaxVersion of paper b are the ids of one block.
get_short_id(base, version) == (base - 1) * MaxVersion + version
BaseOf(paper_id) == ((paper_id - 1) \div MaxVersion) + 1
VersionOf(paper_id) == ((paper_id - 1) % MaxVersion) + 1

\* ArxivSource.configure, line 71: config.get("max_total_results", 500)
ArxivMaxTotalResults(setting) ==
    IF setting.some THEN Some(setting.v) ELSE Some(DEFAULT_MAX_RESULTS)

\* BiorxivSource.configure, lines 116-134 (MedrxivSource: 102-120): a cap
\* that is missing, not an integer or not positive disables the limit.
CursorMaxTotalResults(setting) ==
    IF setting.some /\ setting.v > 0 THEN Some(setting.v) ELSE None

\* A configured source whose fetch_papers has not been called yet.
SourceConfigured ==
    /\ s_pc = "configured"
    /\ source_class \in SourceClasses
    /\ papers = <<>>
    /\ cursor = 0
    /\ total_results = -1
    /\ processed_dois = {}
    /\ papers_collected_count = 0
    /\ requests = <<>>
    /\ received = <<>>
    /\ last_page = NoPage
    /\ truncation_warnings = <<>>

InitSources ==
    /\ SchedulerIdle /\ TwinIdle
    /\ GroqConstructed /\ batch_size = DEFAULT_BATCH_SIZE
    /\ batch_delay_seconds = DEFAULT_BATCH_DELAY_SECONDS
    /\ MainIdle
    /\ FilterIdle
    /\ SourceConfigured
    /\ categories \in {{}, {"cat"}}
    /\ max_total_results \in
         IF source_class = "ArxivSource"
         THEN { ArxivMaxTotalResults(c) : c \in {None} \cup { Some(v) : v \in 1..MaxArxivResults } }
         ELSE { CursorMaxTotalResults(c) : c \in {None} \cup { Some(v) : v \in 0..MaxCap } }
    /\ start_time_utc = 0
    /\ end_time_utc = MaxTime

\* Lines 181-189 of arxiv_source.py: keep the first record of every id.
RECURSIVE ArxivDedup(_, _, _)
ArxivSeenAnyVersion(paper_id, seen_ids) ==
    \E seen \in seen_ids : BaseOf(seen) = BaseOf(paper_id)
ArxivSeen(paper_id, seen_ids) == paper_id \in seen_ids
ArxivDedup(fetched_results, papers_processed, seen_ids) ==
    IF fetched_results = <<>> THEN papers_processed
    ELSE IF ~ArxivSeen(Head(fetched_results), seen_ids)
         THEN ArxivDedup(Tail(fetched_results),
                         Append(papers_processed, Head(fetched_results)),
                         seen_ids \cup {Head(fetched_results)})
         ELSE ArxivDedup(Tail(fetched_results), papers_processed, seen_ids)

\* What the arXiv library hands back: at most max_results records that match
\* the query, or an exception while the results are being read.
ArxivAnswers ==
    { [failed |-> TRUE, results |-> <<>>] }
    \cup { [failed |-> FALSE, results |-> r] :
             r \in UNION { [1..len -> { id \in Ids : ArxivMatches(id) }] :
                             len \in 0..Min(MaxArxivResults, max_total_results.v) } }

\* Lines 98-101: without categories nothing is searched
QueryAnyway(cats) == TRUE
HasCategories(cats) == cats # {}

\* Line 170: len(fetched_results) >= self.max_total_results
OverLimitOnly(count) == count > max_total_results.v
FetchLimitReached(count) == count >= max_total_results.v

\* ArxivSource.fetch_papers, the whole call.
ArxivFetchPapers ==
    /\ s_pc = "configured"
    /\ source_class = "ArxivSource"
    /\ IF ~HasCategories(categories)
       THEN /\ papers' = <<>>
            /\ UNCHANGED <<requests, received, truncation_warnings>>
       ELSE \E answer \in ArxivAnswers :
              LET fetched_results == IF answer.failed THEN <<>> ELSE answer.results
              IN  /\ papers' = ArxivDedup(fetched_results, <<>>, {})
                  /\ requests' = Append(requests, 0)
                  /\ received' = received \o answer.results
                  /\ truncation_warnings' =
                       IF FetchLimitReached(Len(fetched_results))
                       THEN Append(truncation_warnings, max_total_results.v)
                       ELSE truncation_warnings
    /\ s_pc' = "returned"
    /\ UNCHANGED <<source_class, categories, max_total_results, cursor, total_results,
                   processed_dois, papers_collected_count, start_time_utc,
                   end_time_utc, last_page>>
    /\ UNCHANGED <<gvars, mvars, rvars, fvars, hvars, tvars>>

Collections ==
    UNION { [1..len -> { id \in {0} \cup Ids : CursorMatches(id) }] :
              len \in 0..MAX_RESULTS_PER_PAGE }

\* The answers to a page request.  The total is read from the answer as long
\* as total_results is -1 (line 204).  The cursor field does not parse, or it
\* echoes the requested cursor with a count of nothing or of a full page.
Pages(first) ==
    { Page(k, None, None, None, <<>>) :
        k \in {"RequestException", "ValueError", "IndexError"} }
    \cup { Page("ok", t, cc[1], cc[2], c) :
             t \in IF first THEN {None, Some(-1), Some(3), Some(9)} ELSE {None},
             cc \in { <<None, Some(0)>>, <<Some(cursor), Some(0)>>,
                      <<Some(cursor), Some(MAX_RESULTS_PER_PAGE)>> },
             c \in Collections }

\* The loop-local state that the items of a page update.
Local(ps, dois, count_in_page, collected, limit_reached) ==
    [papers |-> ps, processed_dois |-> dois, count_in_page |-> count_in_page,
     papers_collected_count |-> collected, limit_reached |-> limit_reached,
     raised |-> FALSE]

\* An element of the collection that is no JSON object: item.get (line 228,
\* medrxiv_source.py 214) raises AttributeError, which nothing in
\* fetch_papers catches.
NotADict == -1

\* Line 229: if not doi or doi in processed_dois: continue
SkipNoDoiOnly(doi, dois) == doi = 0
SkipItem(doi, dois) == doi = 0 \/ doi \in dois

LimitReached(collected) ==
    max_total_results.some /\ collected >= max_total_results.v

\* Lines 227-271 of biorxiv_source.py and 214-250 of medrxiv_source.py: the
\* items of one page.  BiorxivSource leaves the page when the cap is reached
\* (break_in_page); MedrxivSource tests the cap after the page.
RECURSIVE ProcessItems(_, _, _)
ProcessItems(collection, st, break_in_page) ==
    IF collection = <<>> THEN st
    ELSE IF Head(collection) = NotADict THEN [st EXCEPT !.raised = TRUE]
    ELSE IF SkipItem(Head(collection), st.processed_dois)
         THEN ProcessItems(Tail(collection), st, break_in_page)
    ELSE LET added == Local(Append(st.papers, Head(collection)),
                            st.processed_dois \cup {Head(collection)},
                            st.count_in_page + 1,
                            st.papers_collected_count + 1,
                            FALSE)
         IN  IF break_in_page /\ LimitReached(added.papers_collected_count)
             THEN [added EXCEPT !.limit_reached = TRUE]
             ELSE ProcessItems(Tail(collection), added, break_in_page)

\* Lines 313-316: papers[: self.max_total_results]
TruncateNothing(ps) == ps
Truncate(ps) ==
    IF max_total_results.some /\ Len(ps) > max_total_results.v
    THEN Take(ps, max_total_results.v)
    ELSE ps

\* Lines 189-198: return [] on a network failure or a JSON decode failure
ReturnCollected(ps) == ps
ReturnOnFailure(ps) == <<>>

\* Lines 293-297: the tests that end the pagination after a page that was
\* requested at the cursor current
StopPagination(count_in_page, current, next_cursor, total, dois) ==
    \/ count_in_page < MAX_RESULTS_PER_PAGE
    \/ next_cursor <= current
    \/ (total # -1 /\ Cardinality(dois) >= total)

\* The local variables of fetch_papers that live from page to page, with the
\* position of the call: in the loop, returned, raised.
Loop(pc, ps, current, total, dois, collected) ==
    [pc |-> pc, papers |-> ps, cursor |-> current, total_results |-> total,
     processed_dois |-> dois, papers_collected_count |-> collected]

\* Lines 156-164: the call starts with an empty loop state.
CursorFetchEnter ==
    /\ s_pc = "configured"
    /\ source_class \in CursorSources
    /\ s_pc' = "loop"
    /\ papers' = <<>>
    /\ cursor' = 0
    /\ total_results' = -1
    /\ processed_dois' = {}
    /\ papers_collected_count' = 0
    /\ UNCHANGED <<source_class, categories, max_total_results, requests, received,
                   start_time_utc, end_time_utc, last_page, truncation_warnings>>
    /\ UNCHANGED <<gvars, mvars, rvars, fvars, hvars, tvars>>

\* The loop is left: truncate and return (lines 306-321).
LeaveLoop(loop, st, total) ==
    Loop("returned", Truncate(st.papers), loop.cursor, total, st.processed_dois,
         st.papers_collected_count)

\* Lines 174-304 (medrxiv_source.py 160-295): what one answer of the server
\* makes of the loop state, for a source of the given class.
PageStep(class, loop, page) ==
    LET before == Local(loop.papers, loop.processed_dois, 0,
                        loop.papers_collected_count, FALSE)
        total == IF loop.total_results # -1 THEN loop.total_results
                 ELSE IF page.total.some THEN page.total.v ELSE 0
        st == ProcessItems(page.collection, before, class = "BiorxivSource")
    IN  IF page.kind \in {"RequestException", "ValueError"}
        THEN [loop EXCEPT !.pc = "returned", !.papers = ReturnOnFailure(loop.papers)]
        ELSE IF page.kind = "IndexError"
        THEN [loop EXCEPT !.pc = "raised"]
        ELSE IF page.collection = <<>>
        THEN LeaveLoop(loop, before, total)
        ELSE IF st.raised
        THEN [loop EXCEPT !.pc = "raised"]
        ELSE IF st.limit_reached
                \/ (class = "MedrxivSource" /\ LimitReached(st.papers_collected_count))
        THEN LeaveLoop(loop, st, total)
        ELSE IF ~page.cursor_val.some \/ ~page.count_val.some
        THEN LeaveLoop(loop, st, total)
        ELSE IF StopPagination(st.count_in_page, loop.cursor,
                               page.cursor_val.v + page.count_val.v, total,
                               st.processed_dois)
        THEN LeaveLoop(loop, st, total)
        ELSE Loop("loop", st.papers, page.cursor_val.v + page.count_val.v, total,
                  st.processed_dois, st.papers_collected_count)

\* One iteration of the while loop (biorxiv_source.py 166-304,
\* medrxiv_source.py 152-295), with the return that follows the loop.
CursorFetchPage ==
    /\ s_pc = "loop"
    /\ LET loop == Loop("loop", papers, cursor, total_results, processed_dois,
                        papers_collected_count)
           before == Local(papers, processed_dois, 0, papers_collected_count, FALSE)
       IN
       IF LimitReached(papers_collected_count)
       THEN /\ \E after \in { LeaveLoop(loop, before, total_results) } :
                 /\ s_pc' = after.pc
                 /\ papers' = after.papers
                 /\ UNCHANGED <<cursor, total_results, processed_dois,
                                papers_collected_count>>
            /\ UNCHANGED <<requests, received, last_page>>
       ELSE \E page \in Pages(total_results = -1) :
            /\ requests' = Append(requests, cursor)
            /\ received' = received \o page.collection
            /\ last_page' = page
            /\ \E after \in { PageStep(source_class, loop, page) } :
                 /\ s_pc' = after.pc
                 /\ papers' = after.papers
                 /\ cursor' = after.cursor
                 /\ total_results' = after.total_results
                 /\ processed_dois' = after.processed_dois
                 /\ papers_collected_count' = after.papers_collected_count
    /\ UNCHANGED <<source_class, categories, max_total_results, start_time_utc,
                   end_time_utc, truncation_warnings>>
    /\ UNCHANGED <<gvars, mvars, rvars, fvars, hvars, tvars>>

NextSources == ArxivFetchPapers \/ CursorFetchEnter \/ CursorFetchPage

SpecSources == InitSources /\ [][NextSources]_vars

\* main.py 261-263: the window of a run ends at the start of the run and is
\* fetch_window_days long.
WindowStart(end_time, fetch_window_days) ==
    end_time - fetch_window_days * SecondsPerDay * UnitsPerSecond

\* A call of fetch_papers(start, end) as check_papers makes it, at any time
\* of the day, with the settings of a default configuration.
InitWindow ==
    /\ SchedulerIdle /\ TwinIdle
    /\ GroqConstructed /\ batch_size = DEFAULT_BATCH_SIZE
    /\ batch_delay_seconds = DEFAULT_BATCH_DELAY_SECONDS
    /\ MainIdle
    /\ FilterIdle
    /\ SourceConfigured
    /\ categories = {"cat"}
    /\ max_total_results =
         IF source_class = "ArxivSource"
         THEN ArxivMaxTotalResults(None) ELSE CursorMaxTotalResults(None)
    /\ end_time_utc \in Times
    /\ \E fetch_window_days \in 1..MaxDay :
         /\ WindowStart(end_time_utc, fetch_window_days) \in Times
         /\ start_time_utc = WindowStart(end_time_utc, fetch_window_days)

SpecWindow == InitWindow /\ [][NextSources]_vars

(***************************************************************************)
(* KeywordFilter (src/src/filtering/keyword_filter.py)                     *)
(*                                                                         *)
(* Here a str is a sequence of characters, so that lower(), + and `in`     *)
(* are computed on the text.                                               *)
(***************************************************************************)
\* str.lower() of a character and of a str
LowerChar(c) == IF c = "A" THEN "a" ELSE c
LowerStr(str) == [j \in DOMAIN str |-> LowerChar(str[j])]

\* needle in haystack, for two str
IsSubstring(needle, haystack) ==
    \E k \in 0..(Len(haystack) - Len(needle)) :
        SubSeq(haystack, k + 1, k + Len(needle)) = needle

\* The texts of the model: titles and abstracts, and configured keywords.
Texts == { <<>>, <<"a">>, <<"A">> }
RawKeywords == { <<>>, <<"a">>, <<"A">>, <<"a", "a">>, <<"a", " ", "a">> }

\* A Paper handed to a filter, without annotation.
FilterPaper(title, abstract) ==
    [title |-> title, abstract |-> abstract, matched_keywords |-> None,
     similarity_score |-> None, matched_target |-> None]

FilterInputs ==
    UNION { [1..len -> { FilterPaper(t, a) : t \in Texts, a \in Texts }] :
              len \in 0..MaxInput }

\* The "paper_source" section handed to configure: the keyword lists of its
\* sources, in order; a source with an empty list may come first.
KeywordLists == UNION { [1..len -> RawKeywords] : len \in 0..MaxKeywords }
KeywordConfigs ==
    { <<>> } \cup { <<k>> : k \in KeywordLists } \cup { <<<<>>, k>> : k \in KeywordLists }

\* Line 53: [str(kw).lower() for kw in keywords_raw if kw]
LoweredKeywords(keywords_raw) ==
    LET kept == SelectSeq(keywords_raw, LAMBDA kw : kw # <<>>)
    IN  [j \in DOMAIN kept |-> LowerStr(kept[j])]

\* Lines 41-56: the keywords of the first source that has any.
RECURSIVE ConfiguredKeywords(_)
ConfiguredKeywords(paper_source_config) ==
    IF paper_source_config = <<>> THEN <<>>
    ELSE IF Head(paper_source_config) # <<>>
         THEN LoweredKeywords(Head(paper_source_config))
         ELSE ConfiguredKeywords(Tail(paper_source_config))

InitKeyword ==
    /\ SchedulerIdle /\ TwinIdle
    /\ GroqConstructed /\ batch_size = DEFAULT_BATCH_SIZE
    /\ batch_delay_seconds = DEFAULT_BATCH_DELAY_SECONDS
    /\ MainIdle
    /\ SourceIdle
    /\ f_pc = "constructed"
    /\ filter_class = "KeywordFilter"
    /\ keywords = <<>>
    /\ st_filter = NoSelf
    /\ f_papers = <<>>
    /\ encoding = NoEncoding
    /\ f_result = <<>>

\* KeywordFilter.configure; it may be called again (main.py configures one
\* filter object for every source).
KeywordConfigure ==
    /\ f_pc \in {"constructed", "configured"}
    /\ filter_class = "KeywordFilter"
    /\ \E paper_source_config \in KeywordConfigs :
         keywords' = ConfiguredKeywords(paper_source_config)
    /\ f_pc' = "configured"
    /\ UNCHANGED <<filter_class, st_filter, f_papers, encoding, f_result>>
    /\ UNCHANGED <<gvars, mvars, svars, rvars, hvars, tvars>>

\* Lines 94-96: the text that is searched
TextToSearch(paper) == LowerStr(paper.title) \o <<" ">> \o LowerStr(paper.abstract)

\* Line 99: [kw for kw in self.keywords if kw in text_to_search]
FirstMatchOnly(paper, kws) ==
    LET all == SelectSeq(kws, LAMBDA kw : IsSubstring(kw, TextToSearch(paper)))
    IN  Take(all, 1)
Matched(paper, kws) ==
    SelectSeq(kws, LAMBDA kw : IsSubstring(kw, TextToSearch(paper)))

\* Lines 83-85: without keywords the argument itself is returned
NoKeywordsReturnNothing(input) == <<>>
NoKeywordsResult(input) == [j \in DOMAIN input |-> j]

\* KeywordFilter.filter, the whole call.
KeywordFilterCall ==
    /\ f_pc \in {"constructed", "configured"}
    /\ filter_class = "KeywordFilter"
    /\ \E input \in FilterInputs :
         IF keywords = <<>>
         THEN /\ f_papers' = input
              /\ f_result' = NoKeywordsResult(input)
         ELSE /\ f_papers' =
                   [j \in DOMAIN input |->
                      IF Matched(input[j], keywords) # <<>>
                      THEN [input[j] EXCEPT
                              !.matched_keywords = Some(Matched(input[j], keywords))]
                      ELSE input[j]]
              /\ f_result' =
                   SelectSeq([j \in DOMAIN input |-> j],
                             LAMBDA j : Matched(input[j], keywords) # <<>>)
    /\ f_pc' = "returned"
    /\ UNCHANGED <<filter_class, keywords, st_filter, encoding>>
    /\ UNCHANGED <<gvars, mvars, svars, rvars, hvars, tvars>>

NextKeyword == KeywordConfigure \/ KeywordFilterCall

SpecKeyword == InitKeyword /\ [][NextKeyword]_vars

(***************************************************************************)
(* SentenceTransformerFilter                                               *)
(* (src/src/filtering/sentence_transformer_filter.py)                      *)
(*                                                                         *)
(* A similarity is an integer number of ten-thousandths (0.75 is 7500).    *)
(***************************************************************************)
DEFAULT_THRESHOLD == 6500
DEFAULT_TARGET_TEXT == "scientific research papers"

\* round(max_similarity, 3)
Round3(x) == ((x + 5) \div 10) * 10

\* Lines 38-49: the settings configure reads.  The threshold setting is
\* missing, a number, or a value float() rejects; target_texts is missing, a
\* str, a list, or something else.
\* A setting is tagged with its Python type; "absent" is a missing key.
Setting(t, v) == [t |-> t, v |-> v]
STThresholdSettings ==
    { Setting("absent", 0), Setting("float", 3000), Setting("str", 0) }
STTargetSettings ==
    { Setting("absent", <<>>), Setting("str", <<"t1">>), Setting("list", <<>>),
      Setting("list", <<"t1">>), Setting("list", <<"t1", "t2">>),
      Setting("int", <<>>) }

\* Lines 39, 43-49: a str becomes a list of one, a list is taken as it is,
\* anything else is replaced by the default.
TargetTexts(raw_targets) ==
    IF raw_targets.t \in {"str", "list"} THEN raw_targets.v
    ELSE <<DEFAULT_TARGET_TEXT>>

\* Lines 59-79: the state after _load_model_and_encode_targets; loads tells
\* whether SentenceTransformer(...) and the encoding of the targets succeed.
LoadedModel(self, loads) ==
    [self EXCEPT !.model = loads,
                 !.target_embeddings = loads /\ self.target_texts # <<>>]

InitST ==
    /\ SchedulerIdle /\ TwinIdle
    /\ GroqConstructed /\ batch_size = DEFAULT_BATCH_SIZE
    /\ batch_delay_seconds = DEFAULT_BATCH_DELAY_SECONDS
    /\ MainIdle
    /\ SourceIdle
    /\ f_pc = "constructed"
    /\ filter_class = "SentenceTransformerFilter"
    /\ keywords = <<>>
    /\ st_filter = [configured |-> FALSE, model |-> FALSE, target_embeddings |-> FALSE,
                    similarity_threshold |-> DEFAULT_THRESHOLD,
                    target_texts |-> <<DEFAULT_TARGET_TEXT>>]
    /\ f_papers = <<>>
    /\ encoding = NoEncoding
    /\ f_result = <<>>

\* SentenceTransformerFilter.configure.  float() of line 38 raises on a bad
\* threshold, before anything of the filter is set.
STConfigure ==
    /\ f_pc \in {"constructed", "configured", "configure_raised"}
    /\ filter_class = "SentenceTransformerFilter"
    /\ \E threshold \in STThresholdSettings, raw_targets \in STTargetSettings,
          loads \in BOOLEAN :
         IF threshold.t = "str"
         THEN /\ f_pc' = "configure_raised"
              /\ UNCHANGED st_filter
         ELSE /\ f_pc' = "configured"
              /\ st_filter' =
                   [LoadedModel(
                      [st_filter EXCEPT
                         !.similarity_threshold =
                            IF threshold.t = "float" THEN threshold.v
                            ELSE DEFAULT_THRESHOLD,
                         !.target_texts = TargetTexts(raw_targets)],
                      loads)
                    EXCEPT !.configured = TRUE]
    /\ UNCHANGED <<filter_class, keywords, f_papers, encoding, f_result>>
    /\ UNCHANGED <<gvars, mvars, svars, rvars, hvars, tvars>>

\* The papers handed to SentenceTransformerFilter.filter: only the presence
\* of the abstract matters to it.
STInputs ==
    UNION { [1..len -> { FilterPaper(<<"a">>, a) : a \in {<<>>, <<"a">>} }] :
              len \in 0..MaxInput }

\* What model.encode and cos_sim do in a call for n abstracts and t targets:
\* one of them raises, or cos_sim returns an n x t matrix.
SimilarityValues == {1000, 3004, 7500}
Encodings(n, t) ==
    { [kind |-> k, similarities |-> <<>>] : k \in {"encode_raises", "cos_sim_raises"} }
    \cup { [kind |-> "ok", similarities |-> sim] :
             sim \in [1..n -> [1..t -> SimilarityValues]] }

\* torch.max(similarities[i]).item()
MaxOf(row) == CHOOSE x \in { row[k] : k \in DOMAIN row } : \A k \in DOMAIN row : row[k] <= x

\* torch.argmax(similarities[i]).item(): the first index of the maximum
LastArgMax(row) ==
    CHOOSE k \in DOMAIN row : row[k] = MaxOf(row) /\ \A j \in DOMAIN row : j > k => row[j] < row[k]
ArgMax(row) ==
    CHOOSE k \in DOMAIN row : row[k] = MaxOf(row) /\ \A j \in DOMAIN row : j < k => row[j] < row[k]

\* Lines 129-132: the handler of the try block returns []
STFailureEscapes(pc) == "raised"
STOnFailure(pc) == "returned"

\* SentenceTransformerFilter.filter, the whole call.
STFilterCall ==
    /\ f_pc \in {"constructed", "configured", "configure_raised"}
    /\ filter_class = "SentenceTransformerFilter"
    /\ \E input \in STInputs :
       LET with_abstracts == SelectSeq([j \in DOMAIN input |-> j],
                                       LAMBDA j : input[j].abstract # <<>>)
       IN  IF \/ ~st_filter.configured
              \/ ~st_filter.model \/ ~st_filter.target_embeddings
              \/ input = <<>>
              \/ with_abstracts = <<>>
           THEN /\ f_papers' = input
                /\ f_result' = <<>>
                /\ encoding' = NoEncoding
                /\ f_pc' = "returned"
           ELSE \E enc \in Encodings(Len(with_abstracts), Len(st_filter.target_texts)) :
                /\ encoding' = enc
                /\ IF enc.kind # "ok"
                   THEN /\ f_papers' = input
                        /\ f_result' = <<>>
                        /\ f_pc' = STOnFailure(f_pc)
                   ELSE LET relevant ==
                              { r \in DOMAIN with_abstracts :
                                  MaxOf(enc.similarities[r]) >= st_filter.similarity_threshold }
                            position(j) == CHOOSE r \in DOMAIN with_abstracts :
                                               with_abstracts[r] = j
                        IN  /\ f_papers' =
                                 [j \in DOMAIN input |->
                                    IF \E r \in relevant : with_abstracts[r] = j
                                    THEN [input[j] EXCEPT
                                            !.similarity_score =
                                               Some(Round3(MaxOf(enc.similarities[position(j)]))),
                                            !.matched_target =
                                               Some(st_filter.target_texts[
                                                      ArgMax(enc.similarities[position(j)])])]
                                    ELSE input[j]]
                            /\ f_result' =
                                 SelectSeq(with_abstracts,
                                           LAMBDA j : position(j) \in relevant)
                            /\ f_pc' = "returned"
    /\ UNCHANGED <<filter_class, keywords, st_filter>>
    /\ UNCHANGED <<gvars, mvars, svars, rvars, hvars, tvars>>

NextST == STConfigure \/ STFilterCall

SpecST == InitST /\ [][NextST]_vars

(***************************************************************************)
(* The keyword path of check_papers (src/main.py 346-383) with the real    *)
(* KeywordFilter: one filter instance is configured and applied once per   *)
(* group of papers that carry the same source.  Texts and keywords are     *)
(* sequences of characters, as in the KeywordFilter part.                  *)
(***************************************************************************)
\* A fetched paper with the annotation KeywordFilter.filter may set.
SourcePaper(source, title, abstract) ==
    [source |-> source, title |-> title, abstract |-> abstract,
     matched_keywords |-> None]

MaxMerged == 2
SharedSources == {"biorxiv", "medrxiv"}
SharedPapers ==
    { SourcePaper(s, t, a) : s \in SharedSources, t \in {<<"a">>, <<"A">>, <<"b">>},
                             a \in {<<>>, <<"b">>} }

\* config["paper_source"][name]["keywords"]: no list, one keyword, the empty
\* keyword, two keywords.
SharedKeywordLists ==
    { <<>>, << <<"a">> >>, << <<"b">> >>, << <<>> >>, << <<"A">>, <<"b">> >> }

InitShared ==
    /\ SchedulerIdle /\ TwinIdle
    /\ GroqConstructed /\ batch_size = DEFAULT_BATCH_SIZE
    /\ batch_delay_seconds = DEFAULT_BATCH_DELAY_SECONDS
    /\ SourceIdle
    /\ FilterIdle
    /\ m_pc = "fetched"
    /\ checking_method = "keyword"
    /\ confidence_threshold = 0
    /\ checker_fails = FALSE
    /\ all_fetched_papers \in UNION { [1..len -> SharedPapers] : len \in 1..MaxMerged }
    /\ relevance = <<>>
    /\ relevant_papers = <<>>
    /\ active_sources = <<>>
    /\ relevance_checking_method = Some("keyword")
    /\ source_keywords \in
         { [name \in SourceNames |->
              IF name = "biorxiv" THEN b ELSE IF name = "medrxiv" THEN m ELSE <<>>] :
           b \in SharedKeywordLists, m \in SharedKeywordLists }
    /\ source_instances = <<>>
    /\ source_stats = <<>>
    /\ fetch_log = <<>>
    /\ strategies_applied = <<>>
    /\ send_email_summary = FALSE
    /\ handlers_available = FALSE
    /\ handlers_created = 0
    /\ output_calls = <<>>
    /\ summaries = <<>>

\* Lines 356-358: the keys of papers_by_source, in the order in which the
\* sources first appear in the merged list.
RECURSIVE SourceOrder(_, _)
SourceOrder(merged, seen) ==
    IF merged = <<>> THEN seen
    ELSE SourceOrder(Tail(merged),
             IF Contains(seen, Head(merged).source) THEN seen
             ELSE Append(seen, Head(merged).source))

\* keyword_filter.py 41-56 on a filter that was configured before:
\* self.keywords is reset, then set from the configuration.
KeepOldKeywords(old, paper_source_config) ==
    old \o ConfiguredKeywords(paper_source_config)
Reconfigure(old, paper_source_config) == ConfiguredKeywords(paper_source_config)

\* Lines 361-381: the groups are taken in turn; a group without keywords is
\* skipped, any other has the one filter configured with its keywords
\* (374-375) and applied to its papers (378).  run is the state carried from
\* group to group: self.keywords of the filter, the papers with their
\* annotations, and filtered_by_source as positions of the merged list.
RECURSIVE FilterBySource(_, _)
FilterBySource(names, run) ==
    IF names = <<>> THEN run
    ELSE LET name == Head(names)
             own == source_keywords[name]
         IN  IF own = <<>> THEN FilterBySource(Tail(names), run)
             ELSE LET kws == Reconfigure(run.keywords, <<own>>)
                      group == SelectSeq([u \in DOMAIN run.papers |-> u],
                                   LAMBDA u : run.papers[u].source = name)
                      passed == IF kws = <<>> THEN group
                                ELSE SelectSeq(group,
                                       LAMBDA u : Matched(run.papers[u], kws) # <<>>)
                      annotated ==
                          [u \in DOMAIN run.papers |->
                             IF /\ kws # <<>>
                                /\ run.papers[u].source = name
                                /\ Matched(run.papers[u], kws) # <<>>
                             THEN [run.papers[u] EXCEPT !.matched_keywords =
                                       Some(Matched(run.papers[u], kws))]
                             ELSE run.papers[u]]
                  IN  FilterBySource(Tail(names),
                          [keywords |-> kws, papers |-> annotated,
                           filtered |-> run.filtered \o passed])

\* Lines 346-383: the keyword path, from the creation of the filter (351) to
\* the assignment of relevant_papers (383).
KeywordPath ==
    /\ m_pc = "fetched"
    /\ checking_method = "keyword"
    /\ f_pc = "idle"
    /\ \E run \in { FilterBySource(SourceOrder(all_fetched_papers, <<>>),
                        [keywords |-> <<>>, papers |-> all_fetched_papers,
                         filtered |-> <<>>]) } :
         /\ keywords' = run.keywords
         /\ all_fetched_papers' = run.papers
         /\ relevant_papers' = run.filtered
    /\ filter_class' = "KeywordFilter"
    /\ f_pc' = "returned"
    /\ strategies_applied' = Append(strategies_applied, "keyword")
    /\ m_pc' = "summary"
    /\ UNCHANGED <<checking_method, confidence_threshold, checker_fails, relevance>>
    /\ UNCHANGED <<active_sources, relevance_checking_method, source_keywords,
                   source_instances, source_stats, fetch_log, ovars>>
    /\ UNCHANGED <<st_filter, f_papers, encoding, f_result>>
    /\ UNCHANGED <<gvars, svars, hvars, tvars>>

NextShared == KeywordPath

SpecShared == InitShared /\ [][NextShared]_vars

(***************************************************************************)
(* Two or more fetch_papers calls of cursor sources that are given the     *)
(* same answers by the server: the k-th request of every call receives the *)
(* k-th answer.  The calls differ in the class of the source or in the     *)
(* total the server declares.                                              *)
(***************************************************************************)
MaxAnswers == 2

\* The calls that are compared: BiorxivSource (server medrxiv) and
\* MedrxivSource under the declared total t_in.total, and BiorxivSource
\* under the declared total t_in.other_total.
TwinCalls == {"biorxiv", "medrxiv", "other_total"}
TwinClass(call) == IF call = "medrxiv" THEN "MedrxivSource" ELSE "BiorxivSource"
TwinTotal(call) == IF call = "other_total" THEN t_in.other_total ELSE t_in.total

\* What int() makes of messages[0]["total"]: nothing, the sentinel, a total
\* that is reached, a total that is not.
DeclaredTotals == {None, Some(-1), Some(3), Some(9)}

\* An answer of the server before the total is filled in: echo tells whether
\* the cursor field parses (it then repeats the requested cursor).
Answer(kind, echo, count_val, collection) ==
    [kind |-> kind, echo |-> echo, count_val |-> count_val,
     collection |-> collection]

\* The collections of the answers: records with a DOI, records without (0)
\* and elements that are no records.
AnyCollections ==
    UNION { [1..len -> {NotADict, 0} \cup Ids] : len \in 0..MAX_RESULTS_PER_PAGE }

Answers ==
    { Answer(k, FALSE, None, <<>>) :
        k \in {"RequestException", "ValueError", "IndexError"} }
    \cup { Answer("ok", cc[1], cc[2], c) :
             cc \in { <<FALSE, Some(0)>>, <<TRUE, Some(0)>>,
                      <<TRUE, Some(MAX_RESULTS_PER_PAGE)>> },
             c \in AnyCollections }

\* The state of one call: the loop state and the cursors it requested.
TwinRun(loop, asked) == [loop |-> loop, requests |-> asked]

InitTwin ==
    /\ SchedulerIdle
    /\ GroqConstructed /\ batch_size = DEFAULT_BATCH_SIZE
    /\ batch_delay_seconds = DEFAULT_BATCH_DELAY_SECONDS
    /\ MainIdle
    /\ FilterIdle
    /\ s_pc = "idle"
    /\ source_class = ""
    /\ categories = {}
    /\ max_total_results \in
         { CursorMaxTotalResults(c) : c \in {None} \cup { Some(v) : v \in 0..MaxCap } }
    /\ papers = <<>>
    /\ cursor = 0
    /\ total_results = -1
    /\ processed_dois = {}
    /\ papers_collected_count = 0
    /\ requests = <<>>
    /\ received = <<>>
    /\ start_time_utc = 0
    /\ end_time_utc = MaxTime
    /\ last_page = NoPage
    /\ truncation_warnings = <<>>
    /\ t_pc = "loop"
    /\ t_in \in { [total |-> t, other_total |-> o, answered |-> 0,
                   records_only |-> TRUE] :
                    t \in DeclaredTotals, o \in DeclaredTotals }
    /\ t_out = [call \in TwinCalls |->
                  TwinRun(Loop("loop", <<>>, 0, -1, {}, 0), <<>>)]

\* One iteration of the while loop of one call (lines 166-304): the cap test
\* before the request, then the request and what the answer makes of the
\* loop state.  A call that is over stays as it is.
TwinIteration(call, run, answer) ==
    IF run.loop.pc # "loop" THEN run
    ELSE IF LimitReached(run.loop.papers_collected_count)
    THEN TwinRun(LeaveLoop(run.loop,
                     Local(run.loop.papers, run.loop.processed_dois, 0,
                           run.loop.papers_collected_count, FALSE),
                     run.loop.total_results),
                 run.requests)
    ELSE TwinRun(PageStep(TwinClass(call), run.loop,
                     Page(answer.kind,
                          IF answer.kind = "ok" THEN TwinTotal(call) ELSE None,
                          IF answer.echo THEN Some(run.loop.cursor) ELSE None,
                          answer.count_val, answer.collection)),
                 Append(run.requests, run.loop.cursor))

\* The server gives its next answer; every call that is still in its loop
\* makes its next iteration with it.
TwinAnswer ==
    /\ t_pc = "loop"
    /\ t_in.answered < MaxAnswers
    /\ \E answer \in Answers :
         /\ t_out' = [call \in TwinCalls |-> TwinIteration(call, t_out[call], answer)]
         /\ t_in' = [t_in EXCEPT !.answered = @ + 1,
                                 !.records_only =
                                     @ /\ ~Contains(answer.collection, NotADict)]
    /\ t_pc' = IF \A call \in TwinCalls : t_out'[call].loop.pc # "loop"
               THEN "done" ELSE "loop"
    /\ UNCHANGED <<gvars, mvars, svars, rvars, fvars, hvars>>

NextTwin == TwinAnswer

SpecTwin == InitTwin /\ [][NextTwin]_vars

(***************************************************************************)
(* Scheduler.run (src/src/scheduler.py 82-176).  The schedule library, the *)
(* job and time.sleep are the environment: each call of them ends normally *)
(* or raises.  h_log records every call with its result.                   *)
(***************************************************************************)
MaxIterations == 3

\* Line 128: sleep_duration = 60
DEFAULT_SLEEP_SECONDS == 60

Event(op, result, seconds) == [op |-> op, result |-> result, seconds |-> seconds]

\* Lines 134-162: the sleep after run_pending.  next_run is None when
\* schedule.next_run is no datetime, else the seconds until the next run;
\* the half of one second is raised to one by max(1, ...).
SleepDuration(next_run) ==
    IF ~next_run.some THEN DEFAULT_SLEEP_SECONDS
    ELSE IF next_run.v > 0
    THEN Min(IF next_run.v \div 2 < 1 THEN 1 ELSE next_run.v \div 2,
             DEFAULT_SLEEP_SECONDS)
    ELSE 1

NextRuns == {None} \cup { Some(w) : w \in {-1, 1, 30, 200} }

InitScheduler ==
    /\ TwinIdle
    /\ GroqConstructed /\ batch_size = DEFAULT_BATCH_SIZE
    /\ batch_delay_seconds = DEFAULT_BATCH_DELAY_SECONDS
    /\ MainIdle
    /\ SourceIdle
    /\ FilterIdle
    /\ h_pc = "created"
    /\ h_log = <<>>

\* Lines 93-111: the registration.  A TypeError that names the timezone
\* keyword is answered by a registration without timezone (line 103); any
\* other failure ends run() by return.
Registered(result) == result \in {"ok", "TypeError_tz"}

SchedulerRegister ==
    /\ h_pc = "created"
    /\ \E result \in {"ok", "TypeError_tz", "TypeError", "Exception"} :
         /\ h_log' = IF result = "TypeError_tz"
                     THEN h_log \o <<Event("register", result, 0),
                                     Event("register_local", "ok", 0)>>
                     ELSE Append(h_log, Event("register", result, 0))
         /\ h_pc' = IF Registered(result) THEN "initial" ELSE "returned"
    /\ UNCHANGED <<gvars, mvars, svars, rvars, fvars, tvars>>

\* Lines 116-122: "except Exception" keeps the scheduler going after a
\* failed initial run; a KeyboardInterrupt is no Exception and leaves run().
StopAfterInitialError(result) == IF result = "ok" THEN "pending" ELSE "raised"
AfterInitialRun(result) == IF result = "KeyboardInterrupt" THEN "raised" ELSE "pending"

\* Lines 115-124: the run on startup.
InitialRun ==
    /\ h_pc = "initial"
    /\ \E result \in {"ok", "Exception", "KeyboardInterrupt"} :
         /\ h_log' = Append(h_log, Event("job", result, 0))
         /\ h_pc' = AfterInitialRun(result)
    /\ UNCHANGED <<gvars, mvars, svars, rvars, fvars, tvars>>

Calls(op) == Cardinality({ k \in DOMAIN h_log : h_log[k].op = op })

\* Lines 126-162 and the except clauses 166-173: run_pending and the
\* computation of the sleep.  Normally the sleep of line 164 follows; an
\* Exception leads to the handler of line 169 with the default duration, a
\* KeyboardInterrupt to the break of line 168.
RunPending ==
    /\ h_pc = "pending"
    /\ Calls("run_pending") < MaxIterations
    /\ \/ \E next_run \in NextRuns :
            /\ h_log' = Append(h_log, Event("run_pending", "ok", SleepDuration(next_run)))
            /\ h_pc' = "sleep"
       \/ /\ h_log' = Append(h_log, Event("run_pending", "Exception",
                                          DEFAULT_SLEEP_SECONDS))
          /\ h_pc' = "handler_sleep"
       \/ /\ h_log' = Append(h_log, Event("run_pending", "KeyboardInterrupt", 0))
          /\ h_pc' = "returned"
    /\ UNCHANGED <<gvars, mvars, svars, rvars, fvars, tvars>>

\* Line 164: time.sleep inside the try block; the KeyboardInterrupt clause
\* of line 166 ends the loop and run() returns (line 176).
LoopSleep ==
    /\ h_pc = "sleep"
    /\ \E result \in {"ok", "KeyboardInterrupt"} :
         /\ h_log' = Append(h_log, Event("sleep", result, h_log[Len(h_log)].seconds))
         /\ h_pc' = IF result = "ok" THEN "pending" ELSE "returned"
    /\ UNCHANGED <<gvars, mvars, svars, rvars, fvars, tvars>>

\* Line 174: time.sleep inside the "except Exception" clause.  No clause of
\* the try statement covers its own handlers, so a KeyboardInterrupt raised
\* here leaves run().
InterruptInHandler == "raised"

HandlerSleep ==
    /\ h_pc = "handler_sleep"
    /\ \E result \in {"ok", "KeyboardInterrupt"} :
         /\ h_log' = Append(h_log, Event("handler_sleep", result,
                                         h_log[Len(h_log)].seconds))
         /\ h_pc' = IF result = "ok" THEN "pending" ELSE InterruptInHandler
    /\ UNCHANGED <<gvars, mvars, svars, rvars, fvars, tvars>>

NextScheduler ==
    SchedulerRegister \/ InitialRun \/ RunPending \/ LoopSleep \/ HandlerSleep

SpecScheduler == InitScheduler /\ [][NextScheduler]_vars

(***************************************************************************)
(* Claims about GroqChecker, checked under SpecGroq                        *)
(***************************************************************************)
Finished == g_pc \in {"returned", "raised"}

\* The chunk processed last answered with an array (bare or under the
\* "abstracts" key) that the code went on to parse.
LastIsArray ==
    /\ last.valid
    /\ last.outcome.kind = "content"
    /\ \/ last.outcome.json = "list"
       \/ last.outcome.json = "dict" /\ last.outcome.key = "abstracts"
    /\ last.outcome.val_is_list

IsErrorVerdict(resp) == ~resp.is_relevant /\ resp.confidence = 0

\* The requests of the log, in order.
Sends == SelectSeq(log, LAMBDA ev : ev.op = "send")

\* C1: check_relevance_batch returns exactly one verdict per abstract, the
\* i-th verdict belonging to the i-th abstract, whatever each chunk's remote
\* call does.
C1_OneVerdictPerAbstract ==
    (g_pc # "constructed" /\ g_pc # "loop") =>
        /\ g_pc = "returned"
        /\ Len(all_responses) = Len(abstracts)
        /\ response_for = abstracts

\* C2: a provider status error other than rate-limit and 413 on a chunk is
\* turned into error verdicts for that chunk, like a connection error, and
\* check_relevance_batch does not raise.
C2_StatusErrorNotPropagated ==
    /\ g_pc # "raised"
    /\ (last.valid /\ last.outcome = ServerError) =>
          last.result =
            ReturnedList(Repeat(LLMResponseDefault(ExplGroqError("InternalServerError")),
                                last.n))

\* C3: once the call is over, every chunk of the input was sent exactly once,
\* in input order, and every chunk's verdicts were emitted.
C3_EveryChunkSentOnce ==
    Finished =>
        LET total == Len(abstracts)
            chunks == IF total = 0 THEN 0 ELSE (total + batch_size - 1) \div batch_size
        IN  /\ Sends = [k \in 1..chunks |->
                          Send((k - 1) * batch_size,
                               Min(k * batch_size, total) - (k - 1) * batch_size)]
            /\ Len(all_responses) = total

\* C4: an array of length L # n does not fail the chunk: the first min(L, n)
\* verdicts are the parsed items in order, the remaining n - L verdicts are
\* size-mismatch error verdicts, and exactly n verdicts are emitted.
C4_SizeMismatchPadded ==
    (LastIsArray /\ Len(last.outcome.items) # last.n) =>
        /\ last.result.exc = NoExc
        /\ Len(last.result.responses) = last.n
        /\ \A j \in 1..last.n :
             last.result.responses[j] =
               IF j <= Len(last.outcome.items)
               THEN _parse_individual_result(last.outcome.items[j]).resp
               ELSE LLMResponseDefault(EXPL_SIZE_MISMATCH)

\* An item the claim C5 calls invalid: not an object, a missing key, an
\* is_relevant that is no JSON boolean, a confidence that is no JSON number.
InvalidItem(item) ==
    \/ ~item.isdict
    \/ item.is_relevant.t = "absent"
    \/ item.confidence.t = "absent"
    \/ item.explanation.t = "absent"
    \/ item.is_relevant.t # "bool"
    \/ item.confidence.t \notin {"int", "bigint", "float"}

ItemErrorExplanations ==
    {EXPL_INVALID_ITEM_TYPE, ExplInvalidItemStructure("ValueError"),
     ExplInvalidItemStructure("KeyError")}

\* C5: in a chunk answered by an array, an invalid item becomes an error
\* verdict at its index only; every other index keeps the verdict of its own
\* item.
C5_InvalidItemIsolated ==
    LastIsArray =>
        /\ last.result.exc = NoExc
        /\ \A j \in 1..Min(last.n, Len(last.outcome.items)) :
             LET item == last.outcome.items[j]
                 resp == last.result.responses[j]
             IN  IF InvalidItem(item)
                 THEN IsErrorVerdict(resp) /\ resp.explanation \in ItemErrorExplanations
                 ELSE \/ FloatRaises(item.confidence)
                      \/ resp = LLMResponse(item.is_relevant.b, Float(item.confidence),
                                            Str(item.explanation))

\* C6: after a rate-limited chunk all its verdicts are error verdicts and,
\* when another chunk follows, the checker has slept strictly longer than
\* the configured inter-batch delay.
C6_RateLimitSleepsLonger ==
    (last.valid /\ last.outcome = RateLimited) =>
        /\ Len(last.result.responses) = last.n
        /\ \A j \in 1..last.n : IsErrorVerdict(last.result.responses[j])
        /\ g_pc = "loop" => (last.slept.some /\ last.slept.v > batch_delay_seconds)

\* The chunk processed last was parsed: the remote call answered and the
\* answer was an array of the expected length.
LastParsed == LastIsArray /\ last.result.exc = NoExc
              /\ Len(last.outcome.items) = last.n

\* C7: after a successfully processed chunk that is not the last one the
\* checker sleeps the configured delay, once; after the last chunk it does
\* not sleep, whatever that chunk's outcome.
C7_DelayBetweenChunksOnly ==
    /\ (LastParsed /\ g_pc = "loop") =>
          /\ last.slept = Some(batch_delay_seconds)
          /\ SubSeq(log, Len(log) - 1, Len(log)) =
               <<Send(last.start, last.n), Sleep(batch_delay_seconds)>>
    /\ (last.valid /\ g_pc = "returned") =>
          /\ ~last.slept.some
          /\ log[Len(log)].op = "send"

\* C8: a 413 answer gives the chunk error verdicts whose explanation names
\* the remedy (reduce batch_size); no other outcome produces that
\* explanation.
C8_TooLargeNamesRemedy ==
    last.valid =>
        IF last.outcome.kind = "raise" /\ last.outcome.exc.status_code = 413
        THEN /\ last.result.exc = NoExc
             /\ Len(last.result.responses) = last.n
             /\ \A j \in 1..last.n :
                  /\ IsErrorVerdict(last.result.responses[j])
                  /\ Contains(last.result.responses[j].explanation, "Reduce batch_size")
        ELSE \A j \in DOMAIN last.result.responses :
                  /\ last.result.responses[j].explanation # EXPL_TOO_LARGE
                  /\ ~Contains(last.result.responses[j].explanation, "Reduce batch_size")

\* Witness of C8: the first chunk, of two abstracts, was answered with 413;
\* its two verdicts are emitted and another chunk follows.
C8_Witness_TooLargeChunk ==
    /\ last.valid /\ last.outcome = TooLarge /\ last.n = 2 /\ g_pc = "loop"
    /\ Len(all_responses) = 2

(***************************************************************************)
(* Claims about check_papers, checked under SpecMain                       *)
(***************************************************************************)
\* What check_relevance_batch handed back to check_papers.
ReturnedResponses == IF g_pc = "returned" THEN all_responses ELSE <<>>

\* The position of paper u among the papers that have an abstract.
PositionAmongAbstracts(u) ==
    Cardinality({ v \in 1..u : all_fetched_papers[v].abstract # "" })

HasRelevantVerdict(u) ==
    /\ all_fetched_papers[u].abstract # ""
    /\ PositionAmongAbstracts(u) <= Len(ReturnedResponses)
    /\ ReturnedResponses[PositionAmongAbstracts(u)].is_relevant
    /\ ReturnedResponses[PositionAmongAbstracts(u)].confidence >= confidence_threshold

\* C9: in LLM mode a fetched paper is relevant iff it has an abstract and the
\* verdict at its position among the papers with abstracts is relevant with
\* confidence >= threshold; it carries that verdict's confidence and
\* explanation; the relevant list keeps fetch order.
C9_RelevantIffVerdict ==
    (m_pc = "summary" /\ checking_method = "llm") =>
        /\ \A u \in DOMAIN all_fetched_papers :
             (\E j \in DOMAIN relevant_papers : relevant_papers[j] = u)
                <=> HasRelevantVerdict(u)
        /\ \A j \in DOMAIN relevant_papers :
             relevance[relevant_papers[j]] =
                Relevance(ReturnedResponses[PositionAmongAbstracts(relevant_papers[j])])
        /\ \A j, k \in DOMAIN relevant_papers :
             j < k => relevant_papers[j] < relevant_papers[k]

\* Witness of C9: a paper without abstract ahead of two judged papers, of
\* which only the second is relevant.
C9_Witness_SecondJudgedRelevant ==
    /\ m_pc = "summary" /\ checking_method = "llm"
    /\ Len(all_fetched_papers) = 3
    /\ all_fetched_papers[1].abstract = ""
    /\ relevant_papers = <<3>>
    /\ relevance[3].set /\ relevance[3].confidence = 9
    /\ ~relevance[2].set

(***************************************************************************)
(* Claims about the paper sources, checked under SpecSources               *)
(***************************************************************************)
\* C10: no two papers of the list a fetch_papers call returns share an id.
C10_ReturnedIdsUnique ==
    s_pc = "returned" =>
        \A j, k \in DOMAIN papers : j # k => papers[j] # papers[k]

HasDuplicate(ids) == \E j, k \in DOMAIN ids : j # k /\ ids[j] = ids[k] /\ ids[j] # 0

\* Witness of C10: the remote repeated a record, across two pages, and the
\* call returned several papers.
C10_Witness_DuplicateReceived ==
    /\ s_pc = "returned"
    /\ source_class = "MedrxivSource"
    /\ Len(requests) = 2
    /\ HasDuplicate(received)
    /\ Len(papers) = 3

\* The items of a received stream that a cursor source accepts: the first
\* occurrence of every id, without the items that have no id.
RECURSIVE AcceptedItems(_, _)
AcceptedItems(stream, seen) ==
    IF stream = <<>> THEN <<>>
    ELSE IF Head(stream) = 0 \/ Head(stream) \in seen
         THEN AcceptedItems(Tail(stream), seen)
         ELSE <<Head(stream)>> \o AcceptedItems(Tail(stream), seen \cup {Head(stream)})

CapConfigured == source_class \in CursorSources /\ max_total_results.some

C12_AtMostCap ==
    (s_pc = "returned" /\ CapConfigured) =>
        /\ Len(papers) <= max_total_results.v
        /\ Len(AcceptedItems(received, {})) >= max_total_results.v
             => papers = Take(AcceptedItems(received, {}), max_total_results.v)

C12_NoRequestAtCap ==
    (CapConfigured /\ Len(requests') > Len(requests))
        => papers_collected_count < max_total_results.v

\* C12: with a cap configured, a cursor source returns at most cap papers;
\* when at least cap unique items arrived it returns exactly the first cap
\* accepted items in arrival order; and no page is requested once cap papers
\* are collected.
C12_CapTruncatesInArrivalOrder == [](C12_AtMostCap) /\ [][C12_NoRequestAtCap]_vars

\* Witness of C12: four unique items arrived on two pages under a cap of
\* three, and three papers were returned.
C12_Witness_FourItemsCapThree ==
    /\ s_pc = "returned"
    /\ source_class = "MedrxivSource"
    /\ max_total_results = Some(3)
    /\ Len(requests) = 2
    /\ Len(AcceptedItems(received, {})) = 4
    /\ Len(papers) = 3

PageFailed == last_page.kind \in {"RequestException", "ValueError"}

\* C13: a cursor source whose page request ended in a network failure or a
\* JSON decode failure returns the empty list, also when papers of earlier
\* pages had been accepted.
C13_FailureReturnsEmpty ==
    (s_pc = "returned" /\ source_class \in CursorSources /\ PageFailed)
        => papers = <<>>

\* Witness of C13: the first page was accepted with two new items, the
\* second request failed in the network.
C13_Witness_FailureOnSecondPage ==
    /\ s_pc = "returned"
    /\ source_class = "BiorxivSource"
    /\ Len(requests) = 2
    /\ last_page.kind = "RequestException"
    /\ processed_dois = {1, 2}
    /\ papers = <<>>

\* A page was processed without failure and its cursor, count and total
\* were readable.
PageProcessed ==
    /\ source_class \in CursorSources
    /\ requests # <<>>
    /\ last_page.kind = "ok"
    /\ last_page.cursor_val.some /\ last_page.count_val.some
    /\ total_results # -1

\* C15: after a page is processed, the next page is requested if and only if
\* the page returned MAX_RESULTS_PER_PAGE items, the reported cursor plus
\* count is beyond the cursor requested, fewer unique ids were seen than the
\* declared total, and the cap is not reached.
C15_NextPageIffFullPage ==
    PageProcessed =>
        (s_pc = "loop" <=>
            /\ Len(last_page.collection) = MAX_RESULTS_PER_PAGE
            /\ last_page.cursor_val.v + last_page.count_val.v > requests[Len(requests)]
            /\ Cardinality(processed_dois) < total_results
            /\ ~LimitReached(papers_collected_count))

\* C14: the pagination loop terminates for every remote that keeps
\* answering.  Every page that lets the loop go on adds MAX_RESULTS_PER_PAGE
\* new ids, so the loop is bounded exactly when the growth of the ids has a
\* limit: a declared total that the stop test compares with, or a cap.
C14_LoopIsBounded ==
    (s_pc = "loop" /\ source_class \in CursorSources /\ requests # <<>>)
        => (total_results # -1 \/ max_total_results.some)

\* A stream of records without every later record of an id seen before.
RECURSIVE FirstOccurrences(_, _)
FirstOccurrences(stream, seen) ==
    IF stream = <<>> THEN <<>>
    ELSE IF Head(stream) \in seen
         THEN FirstOccurrences(Tail(stream), seen)
         ELSE <<Head(stream)>> \o FirstOccurrences(Tail(stream), seen \cup {Head(stream)})

\* C16: ArxivSource returns the received records without every later record
\* of a versioned id already seen, in the order received; records that are
\* different versions of one paper are both returned.
C16_DedupByVersionedId ==
    (s_pc = "returned" /\ source_class = "ArxivSource") =>
        /\ papers = FirstOccurrences(received, {})
        /\ \A j, k \in DOMAIN received :
             (BaseOf(received[j]) = BaseOf(received[k])
              /\ VersionOf(received[j]) # VersionOf(received[k]))
               => (Contains(papers, received[j]) /\ Contains(papers, received[k]))

\* Witness of C16: version 1 of a paper, its version 2, and version 1 again.
C16_Witness_TwoVersionsAndRepeat ==
    /\ s_pc = "returned"
    /\ source_class = "ArxivSource"
    /\ received = <<get_short_id(1, 1), get_short_id(1, 2), get_short_id(1, 1)>>
    /\ papers = <<get_short_id(1, 1), get_short_id(1, 2)>>

(***************************************************************************)
(* Claims about the window of a fetch, checked under SpecWindow            *)
(***************************************************************************)
\* C11: every paper that fetch_papers(start_time_utc, end_time_utc) returns
\* has a published_date within [start_time_utc, end_time_utc].
C11_WindowContainment ==
    s_pc = "returned" =>
        \A j \in DOMAIN papers :
            /\ start_time_utc <= PublishedDate(papers[j])
            /\ PublishedDate(papers[j]) <= end_time_utc

(***************************************************************************)
(* Claims about a whole run of check_papers, checked under SpecRun         *)
(***************************************************************************)
FetchLoopDone == m_pc \in {"fetched", "llm", "summary", "notify", "done"}

\* The number of fetch_papers calls on the source of a name.
FetchCalls(name) == Cardinality({ j \in DOMAIN fetch_log : fetch_log[j].name = name })

FetchRaised(name) ==
    \E j \in DOMAIN fetch_log : fetch_log[j].name = name /\ fetch_log[j].kind = "raised"

\* Every initialized source was fetched exactly once when the loop is over.
C18_EverySourceFetchedOnce ==
    FetchLoopDone =>
        \A k \in DOMAIN source_instances : FetchCalls(source_instances[k]) = 1

\* A fetch that raises leaves the merged list as it was.
C18_RaiseAddsNothing ==
    (/\ Len(fetch_log') = Len(fetch_log) + 1
     /\ fetch_log'[Len(fetch_log')].kind = "raised")
    => all_fetched_papers' = all_fetched_papers

\* C18: once the fetch loop is over, fetch_papers of every initialized source
\* was called exactly once, whatever the sources before it did, and a source
\* whose fetch raised has no paper in the merged list.
C18_FailureIsolation ==
    [](C18_EverySourceFetchedOnce) /\ [][C18_RaiseAddsNothing]_vars

\* Witness of C18: the fetch of the first source raised, the second source
\* was fetched after it and returned a paper.
C18_Witness_SecondFetchedAfterRaise ==
    /\ FetchLoopDone
    /\ Len(fetch_log) = 2
    /\ fetch_log[1].kind = "raised"
    /\ fetch_log[2].kind = "returned"
    /\ Len(all_fetched_papers) = 1
    /\ all_fetched_papers[1].source \in Servers(fetch_log[2].name)

\* C19: the statistics of every source whose fetch failed, by a failure
\* handled inside fetch_papers or by an exception, record an error.
C19_FailureRecordedInStats ==
    \A j \in DOMAIN fetch_log :
        fetch_log[j].kind \in {"failed", "raised"} => source_stats[fetch_log[j].name].error

KnownSourceNames == { name \in SourceNames : SourceClassOf(name) # "" }

\* C20: when the run has initialized and fetched its sources, every name of
\* active_sources that is arxiv, biorxiv or medrxiv has a created and
\* configured source whose fetch_papers was called exactly once.
C20_KnownSourcesFetchedOnce ==
    (FetchLoopDone \/ m_pc = "returned") =>
        \A k \in DOMAIN active_sources :
            active_sources[k] \in KnownSourceNames =>
                /\ Contains(source_instances, active_sources[k])
                /\ FetchCalls(active_sources[k]) = 1

\* The methods the configuration loader supports (config_loader.py 174-227).
SupportedMethods == {"keyword", "llm", "local_sentence_transformer"}

ConfiguredMethod == GetCheckingMethod(relevance_checking_method)

\* C17: when a supported method is configured, its checker is available and
\* papers were fetched, the run applies exactly the configured strategy; the
\* relevant papers are papers that strategy selected.
C17_ExactlyTheConfiguredStrategy ==
    (/\ m_pc = "summary"
     /\ all_fetched_papers # <<>>
     /\ ConfiguredMethod \in SupportedMethods
     /\ ~checker_fails)
    => /\ strategies_applied = <<ConfiguredMethod>>
       /\ ConfiguredMethod = "llm" =>
            \A j \in DOMAIN relevant_papers : relevance[relevant_papers[j]].set
       /\ ConfiguredMethod = "keyword" =>
            \A j \in DOMAIN relevant_papers :
                KeywordMatches(all_fetched_papers[relevant_papers[j]],
                               source_keywords[all_fetched_papers[relevant_papers[j]].source])

(***************************************************************************)
(* Claims about KeywordFilter, checked under SpecKeyword                   *)
(***************************************************************************)
KeywordFilterReturned ==
    f_pc = "returned" /\ filter_class = "KeywordFilter"

\* The positions of the keywords that occur in a text, and the keywords at
\* a set of positions, in configured order.
KeywordHits(text) == { k \in DOMAIN keywords : IsSubstring(keywords[k], text) }
KeywordsAt(hits) ==
    LET sel == SelectSeq([k \in DOMAIN keywords |-> k], LAMBDA k : k \in hits)
    IN  [n \in DOMAIN sel |-> keywords[sel[n]]]

\* A paper is returned iff a keyword occurs in the text; its matched_keywords
\* are the keywords that occur, in configured order; the result keeps the
\* order of the input.
KeywordContract(text_of_title_and_abstract) ==
    /\ \A j \in DOMAIN f_papers :
         LET hits == KeywordHits(text_of_title_and_abstract[j])
         IN  /\ Contains(f_result, j) <=> hits # {}
             /\ hits # {} => f_papers[j].matched_keywords = Some(KeywordsAt(hits))
    /\ \A a, b \in DOMAIN f_result : a < b => f_result[a] < f_result[b]

\* C21 as stated: the text searched is (title + abstract) lower-cased.
C21_Original_TitlePlusAbstract ==
    (KeywordFilterReturned /\ keywords # <<>>) =>
        KeywordContract([j \in DOMAIN f_papers |->
            LowerStr(f_papers[j].title \o f_papers[j].abstract)])

\* C21, amended: with a non-empty keyword list, filter returns a paper iff a
\* configured keyword is a substring of the lower-cased title, a space and
\* the lower-cased abstract; matched_keywords is the list of exactly those
\* keywords in configured order; the output is a subsequence of the input.
C21_KeywordAnnotation ==
    (KeywordFilterReturned /\ keywords # <<>>) =>
        KeywordContract([j \in DOMAIN f_papers |->
            LowerStr(f_papers[j].title \o <<" ">> \o f_papers[j].abstract)])

\* Witness of C21: the second and the first configured keyword are found in
\* the first paper, one of them across the space, and none in the second.
C21_Witness_TwoKeywordsOnePaper ==
    /\ KeywordFilterReturned
    /\ keywords = << <<"a", " ", "a">>, <<"a">> >>
    /\ Len(f_papers) = 2
    /\ f_papers[1].title = <<"A">>
    /\ f_papers[1].matched_keywords = Some(<< <<"a", " ", "a">>, <<"a">> >>)
    /\ f_papers[2].title = <<>> /\ f_papers[2].abstract = <<>>
    /\ f_result = <<1>>

\* C22: a filter without keywords returns every input paper, in order, and
\* sets no paper's matched_keywords.
C22_NoKeywordsPassesAll ==
    (KeywordFilterReturned /\ keywords = <<>>) =>
        /\ f_result = [j \in DOMAIN f_papers |-> j]
        /\ \A j \in DOMAIN f_papers : f_papers[j].matched_keywords = None

\* Witness of C22: two papers went through a filter without keywords.
C22_Witness_TwoPapersPassed ==
    /\ KeywordFilterReturned
    /\ keywords = <<>>
    /\ Len(f_papers) = 2
    /\ f_result = <<1, 2>>

(***************************************************************************)
(* Claims about SentenceTransformerFilter, checked under SpecST            *)
(***************************************************************************)
STReturned == f_pc = "returned" /\ filter_class = "SentenceTransformerFilter"

\* The similarities of paper j to the targets: the row of its abstract.
SimilaritiesOf(j) ==
    encoding.similarities[Cardinality({ k \in 1..j : f_papers[k].abstract # <<>> })]

\* The largest similarity of paper j and the first target that reaches it.
MaxSimilarity(j) ==
    CHOOSE x \in { SimilaritiesOf(j)[k] : k \in DOMAIN SimilaritiesOf(j) } :
        \A k \in DOMAIN SimilaritiesOf(j) : SimilaritiesOf(j)[k] <= x
FirstBestTarget(j) ==
    st_filter.target_texts[
        CHOOSE k \in DOMAIN SimilaritiesOf(j) :
            /\ SimilaritiesOf(j)[k] = MaxSimilarity(j)
            /\ \A earlier \in 1..(k - 1) : SimilaritiesOf(j)[earlier] # MaxSimilarity(j)]

\* The paper is returned iff it has an abstract and its largest similarity
\* reaches the threshold; it then carries the first best target.
STSelection ==
    /\ \A j \in DOMAIN f_papers :
         Contains(f_result, j) <=>
            (/\ f_papers[j].abstract # <<>>
             /\ MaxSimilarity(j) >= st_filter.similarity_threshold)
    /\ \A n \in DOMAIN f_result :
         f_papers[f_result[n]].matched_target = Some(FirstBestTarget(f_result[n]))

\* C23 as stated: the stored similarity_score equals the maximum.
C23_Original_ScoreIsMaximum ==
    (STReturned /\ encoding.kind = "ok") =>
        /\ STSelection
        /\ \A n \in DOMAIN f_result :
             f_papers[f_result[n]].similarity_score = Some(MaxSimilarity(f_result[n]))

\* C23, amended: filter returns a paper iff it has an abstract and the
\* maximum of its similarities to the target texts is >= the threshold;
\* similarity_score is that maximum rounded to three decimals and
\* matched_target is the target text at the first index of the maximum.
C23_ScoreIsRoundedMaximum ==
    (STReturned /\ encoding.kind = "ok") =>
        /\ STSelection
        /\ \A n \in DOMAIN f_result :
             f_papers[f_result[n]].similarity_score =
                Some(((MaxSimilarity(f_result[n]) + 5) \div 10) * 10)

\* Witness of C23: similarity 0.1 to the first target and 0.75 to the second
\* with threshold 0.3; a second paper is equally similar to both targets.
C23_Witness_SecondTargetBest ==
    /\ STReturned /\ encoding.kind = "ok"
    /\ st_filter.similarity_threshold = 3000
    /\ st_filter.target_texts = <<"t1", "t2">>
    /\ Len(f_papers) = 2
    /\ encoding.similarities = << <<1000, 7500>>, <<3004, 3004>> >>
    /\ f_papers[1].matched_target = Some("t2")
    /\ f_papers[1].similarity_score = Some(7500)
    /\ f_papers[2].matched_target = Some("t1")
    /\ f_result = <<1, 2>>

\* C24: SentenceTransformerFilter.filter never raises: a call made before
\* configure, after a configure whose model load failed, or in which the
\* encoding or the similarity computation fails, ends by returning the
\* empty list.
STCallFailed ==
    \/ ~st_filter.configured
    \/ ~st_filter.model
    \/ ~st_filter.target_embeddings
    \/ encoding.kind \in {"encode_raises", "cos_sim_raises"}
C24_FilterNeverRaises ==
    filter_class = "SentenceTransformerFilter" =>
        /\ f_pc # "raised"
        /\ (f_pc = "returned" /\ STCallFailed) => f_result = <<>>
C24_Witness_SimilarityFailsOnLoadedModel ==
    /\ STReturned
    /\ st_filter.configured /\ st_filter.model /\ st_filter.target_embeddings
    /\ encoding.kind = "cos_sim_raises"
    /\ Len(f_papers) = 2
    /\ \A j \in DOMAIN f_papers : f_papers[j].abstract # <<>>
    /\ f_result = <<>>

(***************************************************************************)
(* Claims about the output and the summary of a run, checked under SpecRun *)
(***************************************************************************)
RunEnded == m_pc = "done"

\* C25 as stated: in every run with LLM checking selected and a checker that
\* cannot be created, every fetched paper is relevant and the statistics of
\* the summary report the method none.
C25_Original_FallbackWheneverCheckerFails ==
    (RunEnded /\ ConfiguredMethod = "llm" /\ checker_fails) =>
        /\ relevant_papers = AllPositions(all_fetched_papers)
        /\ \A k \in DOMAIN summaries : summaries[k].checking_method = "none"

\* C25: when LLM checking is selected, at least one paper was fetched and the
\* checker cannot be created, no strategy is run, every fetched paper is in
\* the relevant list, and the statistics of the summary report the method
\* none and count every fetched paper as relevant.
C25_FallbackToNoCheck ==
    (/\ m_pc \in {"summary", "notify", "done"}
     /\ ConfiguredMethod = "llm" /\ checker_fails
     /\ all_fetched_papers # <<>>) =>
        /\ checking_method = "none"
        /\ strategies_applied = <<>>
        /\ relevant_papers = AllPositions(all_fetched_papers)
        /\ \A k \in DOMAIN summaries :
             /\ summaries[k].checking_method = "none"
             /\ summaries[k].relevant_papers = AllPositions(all_fetched_papers)
             /\ summaries[k].total_relevant = Len(all_fetched_papers)

\* Witness of C25: two papers fetched, the checker not created, the run
\* ended with both papers written and a summary reporting the method none.
C25_Witness_BothPapersRelevantMethodNone ==
    /\ RunEnded
    /\ ConfiguredMethod = "llm" /\ checker_fails
    /\ Len(all_fetched_papers) = 2
    /\ output_calls = << <<1, 2>> >>
    /\ Len(summaries) = 1
    /\ summaries[1].checking_method = "none"
    /\ summaries[1].total_relevant = 2

\* C26: when check_relevance_batch raises inside check_papers the run is not
\* aborted; it ends with no relevant paper, without creating or calling an
\* output handler, and, the summary being enabled, with one summary sent
\* that reports total_relevant 0 and the method llm.
C26_BatchErrorDoesNotAbort ==
    (g_pc = "raised" /\ m_pc # "llm") =>
        /\ m_pc \in {"summary", "notify", "done"}
        /\ checking_method = "llm"
        /\ relevant_papers = <<>>
        /\ handlers_created = 0
        /\ output_calls = <<>>
        /\ (RunEnded /\ send_email_summary) =>
             /\ Len(summaries) = 1
             /\ summaries[1].total_relevant = 0
             /\ summaries[1].relevant_papers = <<>>
             /\ summaries[1].checking_method = "llm"

\* Witness of C26: two papers with abstracts fetched, the batch check
\* raised, the run ended and the summary went out.
C26_Witness_SummaryAfterBatchError ==
    /\ RunEnded
    /\ g_pc = "raised"
    /\ Len(PapersWithAbstracts(all_fetched_papers)) = 2
    /\ handlers_available
    /\ Len(summaries) = 1
    /\ summaries[1].total_fetched = 2
    /\ summaries[1].total_relevant = 0

ArxivReturned == source_class = "ArxivSource" /\ s_pc = "returned"

\* C28: ArxivSource.fetch_papers with no category configured returns the
\* empty list and sends no request to the catalog.
C28_NoCategoriesNoRequest ==
    (ArxivReturned /\ categories = {}) =>
        /\ papers = <<>>
        /\ requests = <<>>
        /\ received = <<>>

\* Witness of C28: the call returned on a source without categories and
\* with a cap of one result.
C28_Witness_ReturnedWithoutCategories ==
    /\ ArxivReturned
    /\ categories = {}
    /\ max_total_results = Some(1)
    /\ papers = <<>>

\* C29: when the number of records ArxivSource.fetch_papers receives equals
\* the configured cap, the call logs one possible-truncation warning naming
\* the cap and still returns: every record received is in the returned
\* list, which is not empty.
C29_CapReachedIsReportedNotFatal ==
    (/\ ArxivReturned /\ categories # {}
     /\ Len(received) = max_total_results.v) =>
        /\ truncation_warnings = <<max_total_results.v>>
        /\ papers # <<>>
        /\ \A k \in DOMAIN received : Contains(papers, received[k])

\* Witness of C29: cap 2, two records received, both returned, warning
\* logged.
C29_Witness_TwoRecordsAtCapTwo ==
    /\ ArxivReturned
    /\ max_total_results = Some(2)
    /\ Len(received) = 2
    /\ Len(papers) = 2
    /\ truncation_warnings = <<2>>

(***************************************************************************)
(* Claim about the wrapper object of a chunk answer, checked under SpecGroq *)
(***************************************************************************)
\* The chunk processed last answered with a single-key object whose value
\* is an array.
LastIsWrapper ==
    /\ last.valid
    /\ last.outcome.kind = "content"
    /\ last.outcome.json = "dict"
    /\ last.outcome.val_is_list

\* C30: a chunk answered with a single-key wrapper object around the verdict
\* array yields what the bare array yields, whatever the name of the key.
C30_WrapperHandledLikeArray ==
    LastIsWrapper =>
        last.result = _process_abstract_batch(last.n, ListJson(last.outcome.items))

(***************************************************************************)
(* Further claims about GroqChecker, checked under SpecGroq                *)
(***************************************************************************)
\* ceil(total / size)
CeilDiv(total, size) == (total + size - 1) \div size

\* The chunks requested are consecutive: the first starts at the first
\* abstract and every other one where the one before ended.
ConsecutiveChunks ==
    \A k \in DOMAIN Sends :
        /\ Sends[k].at = IF k = 1 THEN 0 ELSE Sends[k - 1].at + Sends[k - 1].n
        /\ Sends[k].n = Min(batch_size, Len(abstracts) - Sends[k].at)

\* C31: when a call of check_relevance_batch on N abstracts is over, the
\* requests made were for consecutive chunks of batch_size abstracts (the
\* last one possibly shorter) that together make up the input, there were
\* exactly ceil(N / batch_size) of them, and for N = 0 there was no request
\* and the result is empty.
C31_ChunksPartitionInput ==
    Finished =>
        /\ ConsecutiveChunks
        /\ Len(Sends) = CeilDiv(Len(abstracts), batch_size)
        /\ Len(abstracts) > 0 =>
             Sends[Len(Sends)].at + Sends[Len(Sends)].n = Len(abstracts)
        /\ Len(abstracts) = 0 => (log = <<>> /\ all_responses = <<>>)

\* The same for the calls that return.
C31_Returned_ChunksPartitionInput ==
    g_pc = "returned" =>
        /\ ConsecutiveChunks
        /\ Len(Sends) = CeilDiv(Len(abstracts), batch_size)
        /\ Len(abstracts) > 0 =>
             Sends[Len(Sends)].at + Sends[Len(Sends)].n = Len(abstracts)
        /\ Len(abstracts) = 0 => (log = <<>> /\ all_responses = <<>>)

(***************************************************************************)
(* Claim about the error verdicts in a run, checked under SpecMain         *)
(***************************************************************************)
\* The explanations the checker writes itself begin with one of these texts
\* (groq_checker.py 193, 211, 220, 226, 231, 235, 241, 260).
ErrorExplanationHeads ==
    { Head(EXPL_SIZE_MISMATCH), Head(EXPL_INVALID_ITEM_TYPE),
      Head(ExplInvalidItemStructure("")), Head(ExplRateLimit("")),
      Head(EXPL_TOO_LARGE), Head(ExplGroqError("")), Head(ExplParseFailed("")),
      Head(ExplUnexpected("")) }
IsErrorExplanation(explanation) ==
    explanation # <<>> /\ Head(explanation) \in ErrorExplanationHeads

\* The positions, among the papers with an abstract, whose verdict is one
\* the checker wrote itself.
ErrorVerdictPositions ==
    { k \in DOMAIN all_responses : IsErrorExplanation(all_responses[k].explanation) }

\* C32: every error verdict emitted has is_relevant false and confidence 0,
\* and once the relevance step is over the paper such a verdict belongs to
\* is not in the relevant list and carries no relevance annotation, for
\* every confidence threshold of the run, 0 included.
C32_ErrorVerdictNeverRelevant ==
    /\ \A k \in ErrorVerdictPositions : IsErrorVerdict(all_responses[k])
    /\ (m_pc = "summary" /\ g_pc = "returned") =>
         \A k \in ErrorVerdictPositions :
             k <= Len(PapersWithAbstracts(all_fetched_papers)) =>
                 LET uid == PapersWithAbstracts(all_fetched_papers)[k].uid
                 IN  /\ ~Contains(relevant_papers, uid)
                     /\ ~relevance[uid].set

\* Witness of C32: threshold 0, two papers with abstracts, the first got a
\* relevant verdict and is relevant, the second got an error verdict and is
\* not.
C32_Witness_ThresholdZeroErrorVerdict ==
    /\ m_pc = "summary" /\ g_pc = "returned"
    /\ confidence_threshold = 0
    /\ Len(all_responses) = 2
    /\ Len(PapersWithAbstracts(all_fetched_papers)) = 2
    /\ ErrorVerdictPositions = {2}
    /\ relevant_papers = <<PapersWithAbstracts(all_fetched_papers)[1].uid>>

\* ---------------------------------------------------------------------------
\* The figures of the run summary
\* ---------------------------------------------------------------------------

\* The run is past the relevance step: the figures of lines 395 and 459-473
\* are those of the state.
ReachedSummary == m_pc \in {"summary", "notify", "done"}

\* The relevant list names a paper at most once.
NoRepetition(positions) ==
    \A j, k \in DOMAIN positions : positions[j] = positions[k] => j = k

\* C36: in every run of check_papers that reaches the summary, total_fetched
\* (the sum of the fetched counts kept per source) is the length of the
\* merged list, every entry of the relevant list is a paper of the merged
\* list and none is repeated, total_relevant is the length of the relevant
\* list, and total_relevant <= total_fetched.
C36_SummaryFiguresAgree ==
    ReachedSummary =>
        /\ RunStats.total_fetched = Len(all_fetched_papers)
        /\ \A j \in DOMAIN relevant_papers :
               relevant_papers[j] \in DOMAIN all_fetched_papers
        /\ NoRepetition(relevant_papers)
        /\ RunStats.total_relevant = Len(relevant_papers)
        /\ RunStats.total_relevant <= RunStats.total_fetched
        /\ \A j \in DOMAIN summaries :
               /\ summaries[j].total_fetched = Len(all_fetched_papers)
               /\ summaries[j].total_relevant = Len(relevant_papers)

\* Two sources fetched one paper each, the check kept one of them, and the
\* summary was sent with these figures.
C36_Witness_TwoFetchedOneRelevant ==
    /\ RunEnded
    /\ Len(source_instances) = 2
    /\ \A k \in DOMAIN source_instances :
           source_stats[source_instances[k]].fetched = 1
    /\ Len(all_fetched_papers) = 2
    /\ Len(relevant_papers) = 1
    /\ Len(summaries) = 1

\* ---------------------------------------------------------------------------
\* Keyword mode of check_papers
\* ---------------------------------------------------------------------------

\* The keyword path of check_papers has run.
KeywordPathDone == ReachedSummary /\ strategies_applied = <<"keyword">>

\* C34: in keyword mode no paper of a source without configured keywords is
\* in the relevant list, and a paper of a source with keywords is in it
\* exactly when it holds one of the keywords of its own source.
C34_SourceWithoutKeywordsProducesNothing ==
    KeywordPathDone =>
        \A u \in DOMAIN all_fetched_papers :
            LET paper == all_fetched_papers[u]
                own == source_keywords[paper.source]
            IN  (\E j \in DOMAIN relevant_papers : relevant_papers[j] = u)
                <=> (own # <<>> /\ \E j \in DOMAIN own :
                                      own[j] \in {paper.title, paper.abstract})

\* bioRxiv has no keywords and medRxiv has "plain": both fetched a paper
\* titled "plain", and only the medRxiv paper is relevant.
C34_Witness_OneSourceWithoutKeywords ==
    /\ KeywordPathDone
    /\ Len(all_fetched_papers) = 2
    /\ all_fetched_papers[1].source = "biorxiv"
    /\ all_fetched_papers[1].title = "plain"
    /\ all_fetched_papers[2].source = "medrxiv"
    /\ all_fetched_papers[2].title = "plain"
    /\ source_keywords["biorxiv"] = <<>>
    /\ relevant_papers = <<2>>

\* ---------------------------------------------------------------------------
\* The shared KeywordFilter of the keyword path, checked under SpecShared
\* ---------------------------------------------------------------------------

\* The keywords configured for the source of a paper, lower-cased as the
\* filter compares them.
OwnKeywords(paper) ==
    { LowerStr(source_keywords[paper.source][j]) :
        j \in DOMAIN source_keywords[paper.source] }

\* C35: after the keyword path with one shared KeywordFilter, every paper of
\* the relevant list contains (case-insensitively) a keyword configured for
\* its own source, and its matched_keywords holds keywords of its own source
\* only.
C35_OnlyOwnKeywordsInEffect ==
    KeywordPathDone =>
        \A j \in DOMAIN relevant_papers :
            LET paper == all_fetched_papers[relevant_papers[j]]
            IN  /\ \E kw \in OwnKeywords(paper) : IsSubstring(kw, TextToSearch(paper))
                /\ paper.matched_keywords.some =>
                     \A k \in DOMAIN paper.matched_keywords.v :
                         paper.matched_keywords.v[k] \in OwnKeywords(paper)

\* bioRxiv is filtered by "a" and then medRxiv by "b": the medRxiv paper
\* holds both "a" and "b" and is annotated with "b" only, after the bioRxiv
\* paper was annotated with "a".
C35_Witness_SecondSourceOwnKeywords ==
    /\ KeywordPathDone
    /\ Len(all_fetched_papers) = 2
    /\ all_fetched_papers[1].source = "biorxiv"
    /\ all_fetched_papers[1].matched_keywords = Some(<< <<"a">> >>)
    /\ all_fetched_papers[2].source = "medrxiv"
    /\ all_fetched_papers[2].matched_keywords = Some(<< <<"b">> >>)
    /\ IsSubstring(<<"a">>, TextToSearch(all_fetched_papers[2]))
    /\ relevant_papers = <<1, 2>>
    /\ keywords = << <<"b">> >>

\* ---------------------------------------------------------------------------
\* Cursor-source fetches compared, checked under SpecTwin
\* ---------------------------------------------------------------------------

TwinReturned(call) == t_out[call].loop.pc = "returned"

\* C33: two fetches of BiorxivSource with the same configuration that
\* receive the same pages and different declared totals return the same
\* list of papers.
C33_TotalOnlyForProgress ==
    (TwinReturned("biorxiv") /\ TwinReturned("other_total"))
        => t_out["biorxiv"].loop.papers = t_out["other_total"].loop.papers

\* C37: BiorxivSource for the medrxiv server and MedrxivSource, given the
\* same cap and the same answers, make the same requests, end in the same
\* way and, when they return, return the same ids in the same order.
C37_SameRequestsSameIds ==
    /\ t_out["biorxiv"].requests = t_out["medrxiv"].requests
    /\ t_out["biorxiv"].loop.pc = t_out["medrxiv"].loop.pc
    /\ TwinReturned("biorxiv") =>
         t_out["biorxiv"].loop.papers = t_out["medrxiv"].loop.papers

\* As long as every element of every collection is a record the two classes
\* do agree.
SameOnRecords == t_in.records_only => C37_SameRequestsSameIds

\* The cap is reached in the middle of the second page: MedrxivSource has
\* processed all four records, BiorxivSource three, and both return the
\* first three.
CapInsideSecondPage ==
    /\ t_in.records_only
    /\ max_total_results = Some(3)
    /\ TwinReturned("biorxiv") /\ TwinReturned("medrxiv")
    /\ Len(t_out["biorxiv"].requests) = 2
    /\ Cardinality(t_out["biorxiv"].loop.processed_dois) = 3
    /\ Cardinality(t_out["medrxiv"].loop.processed_dois) = 4
    /\ Len(t_out["medrxiv"].loop.papers) = 3

\* ---------------------------------------------------------------------------
\* Claims about Scheduler.run, checked under SpecScheduler
\* ---------------------------------------------------------------------------

\* The positions of h_log at which op was called.
Positions(op) == { k \in DOMAIN h_log : h_log[k].op = op }

RegistrationFailed ==
    h_log # <<>> /\ h_log[1].op = "register" /\ ~Registered(h_log[1].result)

\* The call that follows the registration (the last registration call when
\* the one without timezone was needed).
AfterRegistration ==
    IF h_log[1].result = "TypeError_tz" THEN 3 ELSE 2

C39_ErrorKeepsLoop ==
    /\ (h_pc = "pending" /\ h_pc' # "pending"
        /\ h_log'[Len(h_log')].result = "Exception") => h_pc' = "handler_sleep"
    /\ (h_pc = "handler_sleep" /\ h_log'[Len(h_log')].result = "ok")
         => h_pc' = "pending"

\* A KeyboardInterrupt in a call of the loop makes run() return.
C39_InterruptReturns ==
    (h_pc \in {"pending", "sleep", "handler_sleep"}
     /\ h_log' # h_log
     /\ h_log'[Len(h_log')].result = "KeyboardInterrupt") => h_pc' = "returned"

\* C39: once the loop has started, an Exception of run_pending never ends it
\* (the loop sleeps and calls run_pending again), and a KeyboardInterrupt at
\* any call of an iteration, the sleep after a loop error included, makes
\* run() leave the loop and return normally.
C39_LoopSurvivesErrorsStopsOnInterrupt ==
    [][C39_ErrorKeepsLoop /\ C39_InterruptReturns]_vars

====
